---- MODULE Spec2Model ----
(***************************************************************************)
(* Model of the vibemoney backend: the provider-payload normalizers of the *)
(* estimates router, the time-series and profit services, the sentiment    *)
(* router and the browser-task client, with the HTTP status each route     *)
(* handler ends with.                                                      *)
(*                                                                         *)
(* JSON values are tagged records: Null, Num(n), Str(s), List(seq) and     *)
(* Dict(f) with f a function from its keys.  Numbers are integers (prices  *)
(* and scores in a fixed scale).                                           *)
(***************************************************************************)
EXTENDS Integers, Sequences, FiniteSets, TLC

VARIABLES
    environ,           \* the environment variables set when the process started
    call,              \* the operation applied last, with its inputs
    ret,               \* what it returned (or the exception / HTTP status)
    client_singleton,  \* chat_service.client_singleton: 0 is None, else an instance id
    constructed,       \* number of BrowserUseClient instances constructed so far
    pc,                \* per /chat worker thread: position in run_chat / get_client
    local,             \* per thread: what it read, the instance it built, the client it got
    run,               \* the run_task activation in steps: position, task_id, status, requests sent
    remote             \* the browser-task service: the status of the submitted task

vars == <<environ, call, ret, client_singleton, constructed, pc, local, run, remote>>
taskVars == <<run, remote>>
chatVars == <<client_singleton, constructed, pc, local>>
threadVars == <<pc, local>>
callVars == <<call, ret>>

(***************************************************************************)
(* JSON values and Python's view of them                                   *)
(***************************************************************************)
Null == [t |-> "null"]
Num(n) == [t |-> "num", v |-> n]
Str(s) == [t |-> "str", v |-> s]
List(q) == [t |-> "list", v |-> q]
Dict(f) == [t |-> "dict", v |-> f]
EmptyDict == Dict([k \in {} |-> Null])
EmptyList == List(<<>>)

\* One key/value dict, and the merge of two dicts with disjoint keys.
KV(k, x) == Dict([j \in {k} |-> x])
Merge(a, b) ==
    Dict([j \in (DOMAIN a.v) \cup (DOMAIN b.v) |-> IF j \in DOMAIN a.v THEN a.v[j] ELSE b.v[j]])

isinstance_dict(x) == x.t = "dict"
isinstance_list(x) == x.t = "list"
isinstance_str(x) == x.t = "str"

\* bool(x): None, 0, "", [] and {} are falsy.
Truthy(x) ==
    CASE x.t = "null" -> FALSE
      [] x.t = "num" -> x.v # 0
      [] x.t = "str" -> x.v # ""
      [] x.t = "list" -> Len(x.v) > 0
      [] x.t = "dict" -> DOMAIN x.v # {}

\* a or b
Or(a, b) == IF Truthy(a) THEN a ELSE b

\* d.get(k) on a dict: None when the key is absent.
Get(d, k) == IF k \in DOMAIN d.v THEN d.v[k] ELSE Null

\* The strings float() parses, with their values; any other string raises ValueError.
NumericStrings == {"0", "7"}
ParseNumber(s) == IF s = "0" THEN 0 ELSE 7

\* float(x): "ok" with the number, or the exception raised.
PyFloat(x) ==
    CASE x.t = "num" -> [exc |-> "none", val |-> Num(x.v)]
      [] x.t = "str" /\ x.v \in NumericStrings -> [exc |-> "none", val |-> Num(ParseNumber(x.v))]
      [] x.t = "str" /\ x.v \notin NumericStrings -> [exc |-> "ValueError", val |-> Null]
      [] OTHER -> [exc |-> "TypeError", val |-> Null]

\* int(x): the numbers of the model are whole, so truncation changes nothing.
PyInt(x) ==
    CASE x.t = "num" -> [exc |-> "none", val |-> Num(x.v)]
      [] x.t = "str" /\ x.v \in NumericStrings -> [exc |-> "none", val |-> Num(ParseNumber(x.v))]
      [] x.t = "str" /\ x.v \notin NumericStrings -> [exc |-> "ValueError", val |-> Null]
      [] OTHER -> [exc |-> "TypeError", val |-> Null]

(***************************************************************************)
(* estimates.py: the schema-probing extractor                              *)
(***************************************************************************)
_coerce_float(x) ==
    IF x = Null \/ x = Str("") THEN Null
    ELSE IF PyFloat(x).exc = "none" THEN PyFloat(x).val ELSE Null

_coerce_int(x) ==
    IF x = Null \/ x = Str("") THEN Null
    ELSE IF PyInt(x).exc = "none" THEN PyInt(x).val ELSE Null

RECURSIVE GetPathFrom(_, _, _)
GetPathFrom(cur, path, i) ==
    IF i > Len(path) THEN cur
    ELSE IF ~isinstance_dict(cur) \/ path[i] \notin DOMAIN cur.v THEN Null
    ELSE GetPathFrom(cur.v[path[i]], path, i + 1)

_get_path(d, path) == GetPathFrom(d, path, 1)

RECURSIVE PickFirstFrom(_, _, _, _)
PickFirstFrom(d, candidates, cast_float, i) ==
    IF i > Len(candidates) THEN Null
    ELSE LET v == _get_path(d, candidates[i])
         IN IF v # Null
            THEN (IF cast_float THEN _coerce_float(v) ELSE v)
            ELSE PickFirstFrom(d, candidates, cast_float, i + 1)

\* The same loop with a truthiness test (`if v:`) in place of `is not None`.
RECURSIVE PickFirstTruthyFrom(_, _, _, _)
PickFirstTruthyFrom(d, candidates, cast_float, i) ==
    IF i > Len(candidates) THEN Null
    ELSE LET v == _get_path(d, candidates[i])
         IN IF Truthy(v)
            THEN (IF cast_float THEN _coerce_float(v) ELSE v)
            ELSE PickFirstTruthyFrom(d, candidates, cast_float, i + 1)

pick_first_truthy(d, candidates, cast_float) == PickFirstTruthyFrom(d, candidates, cast_float, 1)

_pick_first(d, candidates, cast_float) == PickFirstFrom(d, candidates, cast_float, 1)

(***************************************************************************)
(* Inputs of the extractor                                                 *)
(***************************************************************************)
MaxCandidates == 2
MaxPathLen == 2

ProbeKeys == {"a", "b"}
ProbeLeaves == {Null, Num(0), Num(5)}
ProbeInner == {Dict(f) : f \in UNION {[S -> ProbeLeaves] : S \in SUBSET ProbeKeys}}
ProbeTrees ==
    {Dict(f) : f \in UNION {[S -> ProbeLeaves \cup {Str("x")} \cup ProbeInner] : S \in SUBSET {"a"}}}
    \cup {Merge(x, KV("b", y)) :
            x \in {Dict(f) : f \in UNION {[S -> ProbeLeaves \cup {Str("x")} \cup ProbeInner] : S \in SUBSET {"a"}}},
            y \in {Num(0), Num(5)}}

SeqsUpTo(S, n) == UNION {[1..m -> S] : m \in 0..n}
ProbePaths == SeqsUpTo(ProbeKeys, MaxPathLen) \ {<<>>}
ProbeCandidates == SeqsUpTo(ProbePaths, MaxCandidates)

CoerceInputs == {Null, Str(""), Str("x"), Str("0"), Str("7"), Num(0), Num(5), EmptyList, EmptyDict}

(***************************************************************************)
(* Initial state                                                           *)
(***************************************************************************)
NoCall == [op |-> "none"]
NumThreads == 3
Threads == 1..NumThreads
NoLocals == [seen |-> 0, made |-> 0, client |-> 0]

\* No run_task activation, and no task at the service.
NoRun == [pc |-> "idle", schema |-> Null, task_id |-> Null, status |-> Null, result |-> Null,
          polls |-> 0, pass |-> 0, log |-> <<>>]
NoTask == [status |-> "none"]
EnvVars == {"ALPHAVANTAGE_API_KEY", "BROWSER_USE_API_KEY", "POLYGON_API_KEY", "POLYGON_API_KEY_2"}

Init ==
    /\ environ \in SUBSET EnvVars
    /\ call = NoCall
    /\ ret = Null
    /\ client_singleton = 0
    /\ constructed = 0
    /\ pc = [t \in Threads |-> "idle"]
    /\ local = [t \in Threads |-> NoLocals]
    /\ run = NoRun
    /\ remote = NoTask

\* The normalizers are applied in a process with every variable set.
InitUnits == Init /\ environ = EnvVars

(***************************************************************************)
(* The extractor applied to bounded inputs                                 *)
(***************************************************************************)
PickFirst ==
    /\ call = NoCall
    /\ \E d \in ProbeTrees, c \in ProbeCandidates, cf \in BOOLEAN :
          /\ call' = [op |-> "_pick_first", d |-> d, candidates |-> c, cast_float |-> cf]
          /\ ret' = _pick_first(d, c, cf)
    /\ UNCHANGED <<environ, taskVars, chatVars>>

CoerceFloat ==
    /\ call = NoCall
    /\ \E x \in CoerceInputs :
          /\ call' = [op |-> "_coerce_float", x |-> x]
          /\ ret' = _coerce_float(x)
    /\ UNCHANGED <<environ, taskVars, chatVars>>

\* The caller takes the result: the next call starts afresh.
Return ==
    /\ call # NoCall
    /\ call' = NoCall
    /\ ret' = Null
    /\ UNCHANGED <<environ, taskVars, chatVars>>

NextPick == PickFirst \/ CoerceFloat \/ Return
SpecPick == InitUnits /\ [][NextPick]_vars

(***************************************************************************)
(* C10                                                                     *)
(***************************************************************************)
\* The node reached after the first i keys of path p, read only where Through holds.
RECURSIVE NodeAt(_, _, _)
NodeAt(d, p, i) == IF i = 0 THEN d ELSE NodeAt(d, p, i - 1).v[p[i]]

RECURSIVE Through(_, _, _)
Through(d, p, i) ==
    i = 0 \/ ( /\ Through(d, p, i - 1)
               /\ NodeAt(d, p, i - 1).t = "dict"
               /\ p[i] \in DOMAIN NodeAt(d, p, i - 1).v )

PathPresent(d, p) == Through(d, p, Len(p)) /\ NodeAt(d, p, Len(p)) # Null

\* C10: _pick_first returns the (coerced) value at the first candidate path, in list
\* order, that passes only through mappings and ends at a present non-null value, and
\* None when no path does; a terminal 0 is present and comes back as 0; _coerce_float
\* maps None, "" and unparsable values to None and 0 to 0.
C10_PickFirst ==
    /\ call.op = "_pick_first" =>
          LET d == call.d
              c == call.candidates
              hits == {i \in 1..Len(c) : PathPresent(d, c[i])}
          IN IF hits = {} THEN ret = Null
             ELSE LET i == CHOOSE j \in hits : \A k \in hits : j <= k
                      term == NodeAt(d, c[i], Len(c[i]))
                  IN /\ (~call.cast_float => ret = term)
                     /\ (call.cast_float /\ term.t = "num" => ret = term)
                     /\ (call.cast_float /\ term.t # "num" => ret \in {Null} \cup {Num(n) : n \in {0, 7}})
                     /\ (term = Num(0) => ret = Num(0))
    /\ call.op = "_coerce_float" =>
          /\ (call.x \in {Null, Str(""), Str("x"), EmptyList, EmptyDict} => ret = Null)
          /\ (call.x = Num(0) => ret = Num(0))
          /\ (call.x = Str("7") => ret = Num(7))

\* A first path ending at 0 wins over a later path ending at 5.
C10_Witness ==
    /\ call.op = "_pick_first"
    /\ Len(call.candidates) = 2
    /\ PathPresent(call.d, call.candidates[1])
    /\ NodeAt(call.d, call.candidates[1], Len(call.candidates[1])) = Num(0)
    /\ PathPresent(call.d, call.candidates[2])
    /\ NodeAt(call.d, call.candidates[2], Len(call.candidates[2])) = Num(5)
    /\ ret = Num(0)

(***************************************************************************)
(* estimates.py: the list-pluck resolver                                   *)
(***************************************************************************)
\* The lookup without the final isinstance(.., list) guard.
pluck_lists_unguarded(payload) ==
    LET annual0 == Or(Or(Or(Get(payload, "annualEarningsEstimates"),
                            Get(payload, "annual_estimates")),
                         Get(payload, "annual")),
                      EmptyList)
        quarterly0 == Or(Or(Or(Get(payload, "quarterlyEarningsEstimates"),
                               Get(payload, "quarterly_estimates")),
                            Get(payload, "quarterly")),
                         EmptyList)
        data == Or(Or(Get(payload, "data"), Get(payload, "estimates")), EmptyDict)
        nested == (~Truthy(annual0) \/ ~Truthy(quarterly0)) /\ isinstance_dict(data)
        annual == IF nested
                  THEN Or(Or(Or(annual0, Get(data, "annualEarningsEstimates")),
                             Get(data, "annual")),
                          EmptyList)
                  ELSE annual0
        quarterly == IF nested
                     THEN Or(Or(Or(quarterly0, Get(data, "quarterlyEarningsEstimates")),
                                Get(data, "quarterly")),
                             EmptyList)
                     ELSE quarterly0
    IN [annual |-> annual, quarterly |-> quarterly]

_pluck_lists(payload) ==
    LET annual0 == Or(Or(Or(Get(payload, "annualEarningsEstimates"),
                            Get(payload, "annual_estimates")),
                         Get(payload, "annual")),
                      EmptyList)
        quarterly0 == Or(Or(Or(Get(payload, "quarterlyEarningsEstimates"),
                               Get(payload, "quarterly_estimates")),
                            Get(payload, "quarterly")),
                         EmptyList)
        data == Or(Or(Get(payload, "data"), Get(payload, "estimates")), EmptyDict)
        nested == (~Truthy(annual0) \/ ~Truthy(quarterly0)) /\ isinstance_dict(data)
        annual == IF nested
                  THEN Or(Or(Or(annual0, Get(data, "annualEarningsEstimates")),
                             Get(data, "annual")),
                          EmptyList)
                  ELSE annual0
        quarterly == IF nested
                     THEN Or(Or(Or(quarterly0, Get(data, "quarterlyEarningsEstimates")),
                                Get(data, "quarterly")),
                             EmptyList)
                     ELSE quarterly0
    IN [annual |-> IF isinstance_list(annual) THEN annual ELSE EmptyList,
        quarterly |-> IF isinstance_list(quarterly) THEN quarterly ELSE EmptyList]

(***************************************************************************)
(* Inputs of the resolver                                                  *)
(***************************************************************************)
MaxPayloadKeys == 2

AnnualKeys == {"annualEarningsEstimates", "annual_estimates", "annual"}
QuarterlyKeys == {"quarterlyEarningsEstimates", "quarterly_estimates", "quarterly"}
WrapperKeys == {"data", "estimates"}

ListOne == List(<<Str("n1")>>)
ListTwo == List(<<Str("n2"), Str("n3")>>)
\* What a provider may put where a list is expected.
PluckValues == {Null, EmptyList, ListOne, ListTwo, KV("k", Num(1)), Str("s")}

\* A wrapper's content: one variant key, or both short names.
InnerDicts ==
    {EmptyDict}
    \cup {KV(k, x) : k \in AnnualKeys \cup QuarterlyKeys, x \in PluckValues}
    \cup {Merge(KV("annual", x), KV("quarterly", y)) : x, y \in {EmptyList, ListOne, ListTwo}}
WrapperValues == {Null, ListOne} \cup InnerDicts

PayloadValues(k) == IF k \in WrapperKeys THEN WrapperValues ELSE PluckValues

RECURSIVE DictsOver(_)
\* Every mapping with exactly the keys S, each key with one of its values.
DictsOver(S) ==
    IF S = {} THEN {EmptyDict}
    ELSE LET k == CHOOSE j \in S : TRUE
         IN {Merge(KV(k, x), rest) : x \in PayloadValues(k), rest \in DictsOver(S \ {k})}

\* The key sets of the payloads: up to MaxPayloadKeys of the keys _pluck_lists probes.
PayloadKeySets ==
    {T \in SUBSET (AnnualKeys \cup QuarterlyKeys \cup WrapperKeys) : Cardinality(T) <= MaxPayloadKeys}

PluckLists ==
    /\ call = NoCall
    /\ \E S \in PayloadKeySets : \E payload \in DictsOver(S) :
          /\ call' = [op |-> "_pluck_lists", payload |-> payload]
          /\ ret' = _pluck_lists(payload)
    /\ UNCHANGED <<environ, taskVars, chatVars>>

NextPluck == PluckLists \/ Return
SpecPluck == InitUnits /\ [][NextPluck]_vars

(***************************************************************************)
(* C8, C9                                                                  *)
(***************************************************************************)
\* The wrapper the resolver looks into: `data`, else `estimates`.
WrapperOf(payload) ==
    IF "data" \in DOMAIN payload.v THEN payload.v["data"]
    ELSE IF "estimates" \in DOMAIN payload.v THEN payload.v["estimates"]
    ELSE Null

\* The list is absent at top level and sits in the wrapper under exactly one of keys.
OnlyNested(payload, keys, k) ==
    /\ DOMAIN payload.v \cap keys = {}
    /\ Cardinality(DOMAIN payload.v \cap WrapperKeys) = 1
    /\ WrapperOf(payload).t = "dict"
    /\ DOMAIN WrapperOf(payload).v \cap keys = {k}
    /\ WrapperOf(payload).v[k].t = "list"
    /\ Len(WrapperOf(payload).v[k].v) > 0

\* C8: a list not found at top level is taken from the nested data / estimates
\* mapping under any of the variant keys probed at top level; with neither a list
\* nor a wrapper both results are [].
C8_NestedSameVariants ==
    call.op = "_pluck_lists" =>
       LET p == call.payload
       IN /\ \A k \in AnnualKeys : OnlyNested(p, AnnualKeys, k) => ret.annual = WrapperOf(p).v[k]
          /\ \A k \in QuarterlyKeys :
                OnlyNested(p, QuarterlyKeys, k) => ret.quarterly = WrapperOf(p).v[k]
          /\ (DOMAIN p.v = {} => ret.annual = EmptyList /\ ret.quarterly = EmptyList)

\* C9: both components of the result are lists, each either [] or a list the payload
\* holds under a key of its kind; a mapping or scalar found there comes back as [].
C9_AlwaysLists ==
    call.op = "_pluck_lists" =>
       LET p == call.payload
           Held(keys) ==
              {p.v[k] : k \in DOMAIN p.v \cap keys}
              \cup (IF WrapperOf(p).t = "dict"
                    THEN {WrapperOf(p).v[k] : k \in DOMAIN WrapperOf(p).v \cap keys}
                    ELSE {})
              \cup (IF "estimates" \in DOMAIN p.v /\ p.v["estimates"].t = "dict"
                    THEN {p.v["estimates"].v[k] : k \in DOMAIN p.v["estimates"].v \cap keys}
                    ELSE {})
       IN /\ ret.annual.t = "list"
          /\ ret.quarterly.t = "list"
          /\ ret.annual # EmptyList => ret.annual \in Held(AnnualKeys)
          /\ ret.quarterly # EmptyList => ret.quarterly \in Held(QuarterlyKeys)

\* A mapping sits where the annual list is expected, and [] is returned for it.
C9_Witness ==
    /\ call.op = "_pluck_lists"
    /\ "annual" \in DOMAIN call.payload.v
    /\ call.payload.v["annual"] = KV("k", Num(1))
    /\ ret.annual = EmptyList
    /\ ret.quarterly.t = "list"

(***************************************************************************)
(* estimates.py: revision values, revision signal, estimate-node normalizer *)
(***************************************************************************)
EpsRevisionPaths ==
    << <<"eps", "avg">>, <<"eps", "mean">>, <<"epsAvg">>, <<"eps_mean">>, <<"eps_avg">>,
       <<"estimate", "eps", "avg">>, <<"estimate_avg_eps">> >>
RevenueRevisionPaths ==
    << <<"revenue", "avg">>, <<"revenue", "mean">>, <<"revenueAvg">>, <<"revenue_mean">>,
       <<"revenue_avg">>, <<"estimate", "revenue", "avg">>, <<"estimate_avg_revenue">> >>
SubRevisionPaths(kind) ==
    << <<"avg">>, <<"mean">>, <<IF kind = "eps" THEN "epsAvg" ELSE "revenueAvg">>, <<"value">> >>

\* The same loop collecting the values in reverse order.
RECURSIVE SnapValuesReversed(_, _, _)
SnapValuesReversed(snaps, paths, i) ==
    IF i > Len(snaps) THEN <<>>
    ELSE LET v == IF isinstance_dict(snaps[i]) THEN _pick_first(snaps[i], paths, TRUE) ELSE Null
         IN SnapValuesReversed(snaps, paths, i + 1) \o (IF v # Null THEN <<v>> ELSE <<>>)

\* The loop over snapshots: a non-mapping snapshot is skipped, a value is kept when not None.
RECURSIVE SnapValues(_, _, _)
SnapValues(snaps, paths, i) ==
    IF i > Len(snaps) THEN <<>>
    ELSE LET v == IF isinstance_dict(snaps[i]) THEN _pick_first(snaps[i], paths, TRUE) ELSE Null
         IN (IF v # Null THEN <<v>> ELSE <<>>) \o SnapValues(snaps, paths, i + 1)

_extract_revision_values(rev_node, kind) ==
    IF isinstance_list(rev_node)
    THEN SnapValues(rev_node.v, IF kind = "eps" THEN EpsRevisionPaths ELSE RevenueRevisionPaths, 1)
    ELSE IF isinstance_dict(rev_node)
    THEN LET sub == Get(rev_node, kind)
         IN IF isinstance_list(sub) THEN SnapValues(sub.v, SubRevisionPaths(kind), 1) ELSE <<>>
    ELSE <<>>

\* A derivation from the smallest and largest value instead of the first and last.
revision_signal_minmax(values) ==
    IF Len(values) >= 2
    THEN LET lo == CHOOSE x \in {values[i].v : i \in 1..Len(values)} :
                      \A y \in {values[i].v : i \in 1..Len(values)} : x <= y
             hi == CHOOSE x \in {values[i].v : i \in 1..Len(values)} :
                      \A y \in {values[i].v : i \in 1..Len(values)} : x >= y
         IN [revised |-> TRUE, first |-> Num(lo), last |-> Num(hi), delta |-> Num(hi - lo),
             sign |-> IF hi > lo THEN Str("good") ELSE Str("flat")]
    ELSE [revised |-> FALSE, first |-> Null, last |-> Null, delta |-> Null, sign |-> Null]

_revision_signal(values) ==
    IF Len(values) >= 2
    THEN LET first == values[1].v
             last == values[Len(values)].v
         IN [revised |-> TRUE, first |-> Num(first), last |-> Num(last), delta |-> Num(last - first),
             sign |-> IF last > first THEN Str("good")
                      ELSE IF last < first THEN Str("bad") ELSE Str("flat")]
    ELSE [revised |-> FALSE, first |-> Null, last |-> Null, delta |-> Null, sign |-> Null]

\* EstimatePoint declares fiscal_date_ending and quarter as Optional[str]: the model's
\* validation rejects any other JSON value (pydantic.ValidationError).
StrFieldOk(x) == x = Null \/ isinstance_str(x)

_parse_estimate_node(node, period) ==
    LET fiscal_date == _pick_first(node, << <<"fiscalDateEnding">>, <<"fiscal_date_ending">>,
                                           <<"fiscal_date">> >>, FALSE)
        quarter == _pick_first(node, << <<"quarter">>, <<"fiscalQuarterEnding">> >>, FALSE)
        eps_avg == _pick_first(node, << <<"estimate", "eps", "avg">>, <<"eps", "avg">>, <<"epsAvg">>,
                                       <<"eps_avg">>, <<"epsMean">> >>, TRUE)
        eps_low == _pick_first(node, << <<"estimate", "eps", "low">>, <<"eps", "low">>, <<"epsLow">>,
                                       <<"eps_low">> >>, TRUE)
        eps_high == _pick_first(node, << <<"estimate", "eps", "high">>, <<"eps", "high">>,
                                        <<"epsHigh">>, <<"eps_high">> >>, TRUE)
        eps_na == _pick_first(node, << <<"estimate", "eps", "numAnalysts">>, <<"eps", "numAnalysts">>,
                                      <<"epsNumAnalysts">>, <<"numAnalystsEPS">> >>, TRUE)
        rev_avg == _pick_first(node, << <<"estimate", "revenue", "avg">>, <<"revenue", "avg">>,
                                       <<"revenueAvg">>, <<"revenue_avg">>, <<"revenueMean">> >>, TRUE)
        rev_low == _pick_first(node, << <<"estimate", "revenue", "low">>, <<"revenue", "low">>,
                                       <<"revenueLow">>, <<"revenue_low">> >>, TRUE)
        rev_high == _pick_first(node, << <<"estimate", "revenue", "high">>, <<"revenue", "high">>,
                                        <<"revenueHigh">>, <<"revenue_high">> >>, TRUE)
        rev_na == _pick_first(node, << <<"estimate", "revenue", "numAnalysts">>,
                                      <<"revenue", "numAnalysts">>, <<"revenueNumAnalysts">>,
                                      <<"numAnalystsRevenue">> >>, TRUE)
    IN \* node.get("revisions"): only a dict has .get
       IF ~isinstance_dict(node) THEN [exc |-> "AttributeError", point |-> Null]
       ELSE LET rev_node == Or(Or(Or(Get(node, "revisions"), Get(node, "revisionHistory")),
                                  Get(node, "revision_history")),
                               EmptyDict)
                eps_rev_values == _extract_revision_values(rev_node, "eps")
                rev_rev_values == _extract_revision_values(rev_node, "revenue")
            IN IF ~StrFieldOk(fiscal_date) \/ ~StrFieldOk(quarter)
               THEN [exc |-> "ValidationError", point |-> Null]
               ELSE [exc |-> "none",
                     point |-> [fiscal_date_ending |-> fiscal_date,
                                period |-> period,
                                quarter |-> quarter,
                                eps_avg |-> eps_avg,
                                eps_low |-> eps_low,
                                eps_high |-> eps_high,
                                eps_num_analysts |-> _coerce_int(eps_na),
                                revenue_avg |-> rev_avg,
                                revenue_low |-> rev_low,
                                revenue_high |-> rev_high,
                                revenue_num_analysts |-> _coerce_int(rev_na),
                                eps_revision |-> _revision_signal(eps_rev_values),
                                revenue_revision |-> _revision_signal(rev_rev_values)]]

(***************************************************************************)
(* Raw estimate records                                                    *)
(***************************************************************************)
\* The merge of a sequence of dicts with pairwise disjoint keys.
RECURSIVE MergeAll(_)
MergeAll(parts) == IF parts = <<>> THEN EmptyDict ELSE Merge(Head(parts), MergeAll(Tail(parts)))

EpsSnap(n) == KV("eps", KV("avg", Num(n)))
FullEps ==
    KV("estimate", KV("eps", Dict([k \in {"avg", "low", "high", "numAnalysts"} |->
                                     CASE k = "avg" -> Num(52) [] k = "low" -> Num(50)
                                       [] k = "high" -> Num(55) [] OTHER -> Num(7)])))

FiscalOptions ==
    {EmptyDict, KV("fiscalDateEnding", Str("2025-12-31")), KV("fiscal_date", Str("2025-12-31")),
     KV("fiscalDateEnding", Num(2025)), KV("fiscalDateEnding", KV("year", Num(2025)))}
QuarterOptions == {EmptyDict, KV("quarter", Str("Q3")), KV("quarter", Num(3))}
EpsOptions ==
    {EmptyDict, FullEps, KV("eps", KV("avg", Str("x"))), KV("epsAvg", Str("7")),
     KV("estimate", Str("bad")), KV("eps", KV("avg", Num(0)))}
RevenueOptions == {EmptyDict, KV("revenueAvg", Num(100))}
RevisionOptions ==
    {EmptyDict,
     KV("revisions", Null),
     KV("revisions", Str("bad")),
     KV("revisions", Num(1)),
     KV("revisions", List(<<EpsSnap(50), EpsSnap(53)>>)),
     KV("revisions", List(<<Str("junk"), EpsSnap(50)>>)),
     KV("revisionHistory",
        Merge(KV("eps", List(<<KV("avg", Num(53)), Num(4), KV("value", Num(50))>>)),
              KV("revenue", List(<<KV("mean", Num(90)), KV("revenueAvg", Num(90))>>)))),
     KV("revision_history", KV("eps", Str("bad")))}

MappingNodes ==
    {MergeAll(<<f, q, e, r, h>>) :
        f \in FiscalOptions, q \in QuarterOptions, e \in EpsOptions, r \in RevenueOptions,
        h \in RevisionOptions}
NonMappingNodes == {Null, Str("oops"), Num(3), EmptyList}
RawNodes == MappingNodes \cup NonMappingNodes
Periods == {"annual", "quarterly"}

ParseEstimateNode ==
    /\ call = NoCall
    /\ \E node \in RawNodes, period \in Periods :
          /\ call' = [op |-> "_parse_estimate_node", node |-> node, period |-> period]
          /\ ret' = _parse_estimate_node(node, period)
    /\ UNCHANGED <<environ, taskVars, chatVars>>

(***************************************************************************)
(* Revision histories                                                      *)
(***************************************************************************)
MaxValues == 3
RevisionNumbers == {Num(0), Num(50), Num(53)}
RevisionSequences == SeqsUpTo(RevisionNumbers, MaxValues)

RevisionSignal ==
    /\ call = NoCall
    /\ \E values \in RevisionSequences :
          /\ call' = [op |-> "_revision_signal", values |-> values]
          /\ ret' = _revision_signal(values)
    /\ UNCHANGED <<environ, taskVars, chatVars>>


MaxSnaps == 3
\* Snapshots of the list layout and of the mapping layout; some yield no value.
ListSnaps ==
    {EpsSnap(50), EpsSnap(53), KV("epsAvg", Num(0)), KV("eps", KV("avg", Null)),
     KV("eps", KV("avg", Str("x"))), KV("revenueAvg", Num(90)), Str("junk")}
SubSnaps == {KV("avg", Num(53)), KV("value", Num(50)), KV("mean", Str("7")), KV("avg", Null), Num(4)}
RevisionNodes ==
    {List(q) : q \in SeqsUpTo(ListSnaps, MaxSnaps)}
    \cup {KV(kind, List(q)) : kind \in {"eps", "revenue"}, q \in SeqsUpTo(SubSnaps, MaxSnaps)}
RevisionKeys == {"revisions", "revisionHistory", "revision_history"}

ExtractRevisionValues ==
    /\ call = NoCall
    /\ \E rev_node \in RevisionNodes, kind \in {"eps", "revenue"} :
          /\ call' = [op |-> "_extract_revision_values", rev_node |-> rev_node, kind |-> kind]
          /\ ret' = _extract_revision_values(rev_node, kind)
    /\ UNCHANGED <<environ, taskVars, chatVars>>

\* _parse_estimate_node on a record that carries a revision history.
ParseRevisions ==
    /\ call = NoCall
    /\ \E rev_node \in RevisionNodes, key \in RevisionKeys, period \in Periods :
          /\ call' = [op |-> "_parse_estimate_node",
                      node |-> Merge(KV("fiscalDateEnding", Str("2025-12-31")), KV(key, rev_node)),
                      period |-> period]
          /\ ret' = _parse_estimate_node(Merge(KV("fiscalDateEnding", Str("2025-12-31")),
                                               KV(key, rev_node)), period)
    /\ UNCHANGED <<environ, taskVars, chatVars>>

(***************************************************************************)
(* HTTP: provider replies and route responses                              *)
(***************************************************************************)
\* A body that is not JSON: resp.json() raises.
NotJson == [t |-> "notjson"]
\* What an outbound request ends with: a transport error, or a response.
NetworkError == [net |-> "error", status |-> 0, body |-> NotJson]
Response(status, body) == [net |-> "ok", status |-> status, body |-> body]
Is2xx(status) == status >= 200 /\ status < 300

\* What a route answers: the status, the detail of an HTTPException, the payload of a
\* success, and the outbound provider requests issued while handling it.
HttpError(status, detail, calls) ==
    [status |-> status, detail |-> detail, data |-> Null, calls |-> calls]
HttpOk(data, calls) == [status |-> 200, detail |-> Null, data |-> data, calls |-> calls]
\* An exception no handler catches: the framework answers 500.
Unhandled(exc, calls) == HttpError(500, Str(exc), calls)

(***************************************************************************)
(* estimates.py: GET /estimates/{symbol}                                   *)
(***************************************************************************)
Take(q, n) == SubSeq(q, 1, IF n < Len(q) THEN n ELSE Len(q))

\* The records get_estimates selects, each with the period it is parsed for.
SelectedNodes(lists, period, limit) ==
    (IF period \in {"annual", "both"}
     THEN [i \in 1..Len(Take(lists.annual.v, limit)) |->
             [node |-> lists.annual.v[i], period |-> "annual"]]
     ELSE <<>>)
    \o (IF period \in {"quarterly", "both"}
        THEN [i \in 1..Len(Take(lists.quarterly.v, limit)) |->
                [node |-> lists.quarterly.v[i], period |-> "quarterly"]]
        ELSE <<>>)

get_estimates(env, reply, period, limit) ==
    IF "ALPHAVANTAGE_API_KEY" \notin env
    THEN HttpError(500, Str("ALPHAVANTAGE_API_KEY not configured"), 0)
    ELSE IF reply.net = "error" \/ reply.body = NotJson
    THEN HttpError(502, Str("Failed to query Alpha Vantage"), 1)
    ELSE LET payload == reply.body
         IN IF isinstance_dict(payload)
               /\ Truthy(Or(Or(Get(payload, "Information"), Get(payload, "Note")),
                            Get(payload, "Error Message")))
            THEN HttpError(502, Or(Or(Get(payload, "Information"), Get(payload, "Note")),
                                   Get(payload, "Error Message")), 1)
            \* _pluck_lists calls payload.get
            ELSE IF ~isinstance_dict(payload) THEN Unhandled("AttributeError", 1)
            ELSE LET selected == SelectedNodes(_pluck_lists(payload), period, limit)
                     parsed == [i \in 1..Len(selected) |->
                                  _parse_estimate_node(selected[i].node, selected[i].period)]
                     raised == {i \in 1..Len(selected) : parsed[i].exc # "none"}
                 IN IF raised # {}
                    THEN Unhandled(parsed[CHOOSE i \in raised : \A j \in raised : i <= j].exc, 1)
                    ELSE HttpOk([period |-> period,
                                 points |-> [i \in 1..Len(selected) |-> parsed[i].point]], 1)

(***************************************************************************)
(* Inputs of GET /estimates                                                *)
(***************************************************************************)
MaxNodes == 2
MaxLimit == 2

GoodNode ==
    MergeAll(<<KV("fiscalDateEnding", Str("2025-12-31")), FullEps,
               KV("revisions", List(<<EpsSnap(50), EpsSnap(53)>>))>>)
RouteNodes ==
    {GoodNode,
     EmptyDict,
     Merge(KV("fiscalDateEnding", Num(2025)), FullEps),
     Merge(KV("fiscalDateEnding", Str("2025-12-31")), KV("revisions", Str("bad"))),
     Str("oops"),
     Null}
NodeLists == {List(q) : q \in SeqsUpTo(RouteNodes, MaxNodes)}

EstimatePayloads ==
    {KV("annualEarningsEstimates", l) : l \in NodeLists}
    \cup {KV("quarterly", l) : l \in NodeLists}
    \cup {Merge(KV("annual_estimates", List(<<a>>)), KV("data", KV("quarterly", List(<<b>>)))) :
            a, b \in RouteNodes}
    \cup {KV(k, m) : k \in {"Information", "Note", "Error Message"}, m \in {Str("rate limit"), Str("")}}
    \cup {Merge(KV("Note", Str("rate limit")), KV("annual", List(<<GoodNode>>)))}
    \cup {EmptyDict, EmptyList, Null}

EstimateReplies ==
    {NetworkError}
    \cup {Response(st, NotJson) : st \in {200, 500}}
    \cup {Response(200, b) : b \in EstimatePayloads}
    \cup {Response(st, b) : st \in {429, 500},
                            b \in {KV("annualEarningsEstimates", List(<<GoodNode>>)), EmptyDict,
                                   KV("error", Str("server error"))}}

GetEstimates ==
    /\ call = NoCall
    /\ \E reply \in EstimateReplies, period \in {"annual", "quarterly", "both"}, limit \in 1..MaxLimit :
          /\ call' = [op |-> "get_estimates", reply |-> reply, period |-> period, limit |-> limit]
          /\ ret' = get_estimates(environ, reply, period, limit)
    /\ UNCHANGED <<environ, taskVars, chatVars>>

(***************************************************************************)
(* config.py: the settings object                                          *)
(***************************************************************************)
\* The fields class Settings declares; extra environment variables are ignored.
SettingsFields == {"app_name", "version", "api_prefix", "alphavantage_api_key", "browser_use_api_key"}

EnvName(field) ==
    CASE field = "alphavantage_api_key" -> "ALPHAVANTAGE_API_KEY"
      [] field = "browser_use_api_key" -> "BROWSER_USE_API_KEY"
      [] field = "polygon_api_key" -> "POLYGON_API_KEY"
      [] field = "polygon_api_key_2" -> "POLYGON_API_KEY_2"
      [] OTHER -> "-"

\* settings.<field>: the value loaded from the environment (None when unset), or the
\* AttributeError of reading a field the class does not declare.
settings_getattr(env, field) ==
    IF field \notin SettingsFields THEN [exc |-> "AttributeError", val |-> Null]
    ELSE [exc |-> "none", val |-> IF EnvName(field) \in env THEN Str("key") ELSE Null]

\* json.JSONDecodeError is a ValueError: `except ValueError` catches both.
IsValueError(exc) == exc \in {"ValueError", "JSONDecodeError"}

(***************************************************************************)
(* timeseries_service.py                                                   *)
(***************************************************************************)
\* PolygonClient.fetch_aggregates from the reply on: raise_for_status, json, results.
fetch_aggregates(reply) ==
    IF reply.net = "error" THEN [exc |-> "ConnectError", rows |-> EmptyList]
    ELSE IF ~Is2xx(reply.status) THEN [exc |-> "HTTPStatusError", rows |-> EmptyList]
    ELSE IF reply.body = NotJson THEN [exc |-> "JSONDecodeError", rows |-> EmptyList]
    ELSE IF ~isinstance_dict(reply.body) THEN [exc |-> "AttributeError", rows |-> EmptyList]
    ELSE [exc |-> "none", rows |-> Or(Get(reply.body, "results"), EmptyList)]

\* datetime.fromtimestamp(ts_ms / 1000, tz=utc): whole seconds and microseconds.
FromTimestampMs(ts_ms) == [epoch_s |-> ts_ms \div 1000, microsecond |-> (ts_ms % 1000) * 1000]

\* float(row.get(k)) if row.get(k) is not None else None
RowField(row, k) ==
    IF Get(row, k) # Null THEN PyFloat(Get(row, k)) ELSE [exc |-> "none", val |-> Null]

OhlcvKeys == <<"o", "h", "l", "c", "v">>

\* One iteration of the loop: the row is skipped, appended, or raises.
NormalizeRow(row) ==
    IF ~isinstance_dict(row) THEN [exc |-> "AttributeError", skip |-> FALSE, point |-> Null]
    ELSE IF Get(row, "t") = Null THEN [exc |-> "none", skip |-> TRUE, point |-> Null]
    ELSE IF Get(row, "t").t # "num" THEN [exc |-> "TypeError", skip |-> FALSE, point |-> Null]
    ELSE LET failing == {i \in 1..5 : RowField(row, OhlcvKeys[i]).exc # "none"}
         IN IF failing # {}
            THEN [exc |-> RowField(row, OhlcvKeys[CHOOSE i \in failing : \A j \in failing : i <= j]).exc,
                  skip |-> FALSE, point |-> Null]
            ELSE [exc |-> "none", skip |-> FALSE,
                  point |-> [timestamp |-> FromTimestampMs(Get(row, "t").v),
                             open |-> RowField(row, "o").val,
                             high |-> RowField(row, "h").val,
                             low |-> RowField(row, "l").val,
                             close |-> RowField(row, "c").val,
                             volume |-> RowField(row, "v").val]]

RECURSIVE NormalizeFrom(_, _, _)
NormalizeFrom(rows, i, points) ==
    IF i > Len(rows) THEN [exc |-> "none", points |-> points]
    ELSE LET r == NormalizeRow(rows[i])
         IN IF r.exc # "none" THEN [exc |-> r.exc, points |-> <<>>]
            ELSE NormalizeFrom(rows, i + 1, IF r.skip THEN points ELSE Append(points, r.point))

_normalize_points(rows) ==
    IF ~isinstance_list(rows) THEN [exc |-> "TypeError", points |-> <<>>]
    ELSE NormalizeFrom(rows.v, 1, <<>>)

\* fetch_time_series from the client's construction on: fetch the rows, normalize them.
fetch_and_normalize(reply) ==
    IF fetch_aggregates(reply).exc # "none"
    THEN [exc |-> fetch_aggregates(reply).exc, points |-> <<>>, calls |-> 1]
    ELSE [exc |-> _normalize_points(fetch_aggregates(reply).rows).exc,
          points |-> _normalize_points(fetch_aggregates(reply).rows).points,
          calls |-> 1]

fetch_time_series(env, interval, reply) ==
    IF interval # "1d" THEN [exc |-> "ValueError", points |-> <<>>, calls |-> 0]
    ELSE IF settings_getattr(env, "polygon_api_key").exc # "none"
    THEN [exc |-> settings_getattr(env, "polygon_api_key").exc, points |-> <<>>, calls |-> 0]
    ELSE IF ~Truthy(settings_getattr(env, "polygon_api_key").val)
    THEN [exc |-> "ValueError", points |-> <<>>, calls |-> 0]
    ELSE fetch_and_normalize(reply)

\* GET /timeseries/{symbol}
get_time_series(env, interval, reply) ==
    LET r == fetch_time_series(env, interval, reply)
    IN IF r.exc = "none" THEN HttpOk([interval |-> interval, points |-> r.points], r.calls)
       ELSE IF IsValueError(r.exc) THEN HttpError(400, Str(r.exc), r.calls)
       ELSE HttpError(502, Str("Failed to fetch time series data"), r.calls)

(***************************************************************************)
(* The aggregates provider and the rows it returns                         *)
(***************************************************************************)
MaxBars == 3
MaxRows == 2
DayMs == 24 * 60 * 60 * 1000

\* The daily bar of day d, as the provider reports it.
Bar(d) ==
    Dict([k \in {"t", "o", "h", "l", "c", "v"} |->
            CASE k = "t" -> Num(d * DayMs) [] k = "o" -> Num(10 + d) [] k = "h" -> Num(20 + d)
              [] k = "l" -> Num(5 + d) [] k = "c" -> Num(15 + d) [] OTHER -> Num(1000)])

\* The provider's answer to the request fetch_aggregates builds (sort=asc, limit=n)
\* when the window holds the bars of days 1..k: the first n of them, oldest first.
AggregatesReply(k, n) ==
    Response(200, MergeAll(<<KV("status", Str("OK")),
                             KV("resultsCount", Num(IF n < k THEN n ELSE k)),
                             KV("results", List([i \in 1..(IF n < k THEN n ELSE k) |-> Bar(i)]))>>))

\* Answers without a series: a rejection carrying a marker, and a valid empty result.
RejectionBodies ==
    {Merge(KV("status", Str("ERROR")), KV("error", Str("unknown ticker"))),
     KV("Error Message", Str("Invalid API call")),
     KV("Note", Str("rate limit")),
     MergeAll(<<KV("status", Str("ERROR")), KV("error", Str("bad request")), KV("results", Null)>>)}
EmptyResultBody == Merge(KV("status", Str("OK")), KV("resultsCount", Num(0)))

FailedReplies ==
    {NetworkError} \cup {Response(st, b) : st \in {401, 404, 429, 500}, b \in {NotJson, KV("error", Str("failed"))}}

SeriesReplies(k, n) ==
    {AggregatesReply(k, n), Response(200, EmptyResultBody), Response(200, NotJson), Response(200, EmptyList)}
    \cup {Response(200, b) : b \in RejectionBodies}
    \cup FailedReplies

\* Rows of a reply, well-formed or not.
RowTs == {EmptyDict, KV("t", Null), KV("t", Num(DayMs)), KV("t", Num(2 * DayMs + 1500))}
RowOs == {EmptyDict, KV("o", Num(11)), KV("o", Str("abc")), KV("o", Str("7"))}
RowCs == {KV("c", Num(16)), KV("c", Str("n/a")), KV("c", EmptyList)}
Rows == {MergeAll(<<t, o, c, KV("v", Num(1000))>>) : t \in RowTs, o \in RowOs, c \in RowCs}
RowLists == {List(q) : q \in SeqsUpTo(Rows, MaxRows)}

NormalizePoints ==
    /\ call = NoCall
    /\ \E rows \in RowLists :
          /\ call' = [op |-> "_normalize_points", rows |-> rows]
          /\ ret' = _normalize_points(rows)
    /\ UNCHANGED <<environ, taskVars, chatVars>>

FetchAndNormalize ==
    /\ call = NoCall
    /\ \E k \in 0..MaxBars, limit \in 1..MaxLimit :
          \E reply \in SeriesReplies(k, limit) \cup {Response(200, KV("results", rows)) : rows \in RowLists} :
             /\ call' = [op |-> "fetch_and_normalize", bars |-> k, limit |-> limit, reply |-> reply]
             /\ ret' = fetch_and_normalize(reply)
    /\ UNCHANGED <<environ, taskVars, chatVars>>

GetTimeSeries ==
    /\ call = NoCall
    /\ \E k \in 0..MaxBars, limit \in 1..MaxLimit :
          \E reply \in SeriesReplies(k, limit) :
             /\ call' = [op |-> "get_time_series", interval |-> "1d", bars |-> k, limit |-> limit,
                         reply |-> reply]
             /\ ret' = get_time_series(environ, "1d", reply)
    /\ UNCHANGED <<environ, taskVars, chatVars>>

(***************************************************************************)
(* profit_service.py and GET /profit/{symbol}                              *)
(***************************************************************************)
\* PolygonClientKey2.fetch_previous_close from the reply on.
fetch_previous_close(reply) ==
    IF reply.net = "error" THEN [exc |-> "ConnectError", val |-> Null]
    ELSE IF ~Is2xx(reply.status) THEN [exc |-> "HTTPStatusError", val |-> Null]
    ELSE IF reply.body = NotJson THEN [exc |-> "JSONDecodeError", val |-> Null]
    ELSE IF ~isinstance_dict(reply.body) THEN [exc |-> "AttributeError", val |-> Null]
    ELSE LET results == Or(Get(reply.body, "results"), EmptyList)
         IN IF ~Truthy(results) THEN [exc |-> "none", val |-> Null]
            ELSE RowField(results.v[1], "c")

\* as_of is a date (secs = -1) or a datetime of that day; the reference timestamp is
\* the day's start for a date and the datetime itself otherwise.
NormalizedAsOf(as_of) == [day |-> as_of.day, secs |-> IF as_of.secs < 0 THEN 0 ELSE as_of.secs]

\* compute_profit after the configuration check: the day's bar, then the previous close.
profit_from_provider(as_of, day_reply, prev_reply) ==
    LET day == fetch_aggregates(day_reply)
        failed(exc, calls) ==
            [exc |-> exc, price_then |-> Null, price_now |-> Null, profit |-> Null,
             as_of |-> NormalizedAsOf(as_of), calls |-> calls]
    IN IF day.exc # "none" THEN failed(day.exc, 1)
       ELSE LET then == IF Truthy(day.rows)
                        THEN RowField(day.rows.v[Len(day.rows.v)], "c")
                        ELSE [exc |-> "none", val |-> Null]
            IN IF then.exc # "none" THEN failed(then.exc, 1)
               ELSE LET now == fetch_previous_close(prev_reply)
                    IN IF now.exc # "none" THEN failed(now.exc, 2)
                       ELSE [exc |-> "none",
                             price_then |-> then.val,
                             price_now |-> now.val,
                             profit |-> IF then.val # Null /\ now.val # Null
                                        THEN Num(now.val.v - then.val.v) ELSE Null,
                             as_of |-> NormalizedAsOf(as_of),
                             calls |-> 2]

compute_profit(env, as_of, day_reply, prev_reply) ==
    LET failed(exc) ==
            [exc |-> exc, price_then |-> Null, price_now |-> Null, profit |-> Null,
             as_of |-> NormalizedAsOf(as_of), calls |-> 0]
    IN IF settings_getattr(env, "polygon_api_key_2").exc # "none"
       THEN failed(settings_getattr(env, "polygon_api_key_2").exc)
       ELSE IF ~Truthy(settings_getattr(env, "polygon_api_key_2").val) THEN failed("ValueError")
       ELSE profit_from_provider(as_of, day_reply, prev_reply)

get_profit(env, as_of, day_reply, prev_reply) ==
    LET r == compute_profit(env, as_of, day_reply, prev_reply)
    IN IF r.exc = "none"
       THEN HttpOk([as_of |-> r.as_of, price_then |-> r.price_then, price_now |-> r.price_now,
                    profit |-> r.profit], r.calls)
       ELSE IF IsValueError(r.exc) THEN HttpError(400, Str(r.exc), r.calls)
       ELSE HttpError(502, Str("Failed to compute profit"), r.calls)

\* Inputs: the provider's bars of the as_of day and its previous close.
CloseRow(c) == KV("c", c)
DayReplies ==
    {Response(200, KV("results", List(q))) :
        q \in {<<CloseRow(Num(18622))>>, <<CloseRow(Num(18000)), CloseRow(Num(18622))>>,
               <<CloseRow(Null)>>, <<CloseRow(Str("n/a"))>>}}
    \cup {Response(200, EmptyResultBody)}
    \cup FailedReplies
PrevReplies ==
    {Response(200, KV("results", List(<<CloseRow(Num(22114))>>))),
     Response(200, KV("results", List(<<CloseRow(Null)>>))),
     Response(200, EmptyResultBody)}
    \cup FailedReplies
AsOfs == {[day |-> 1, secs |-> -1], [day |-> 1, secs |-> 3600]}

ProfitFromProvider ==
    /\ call = NoCall
    /\ \E as_of \in AsOfs, day_reply \in DayReplies, prev_reply \in PrevReplies :
          /\ call' = [op |-> "profit_from_provider", as_of |-> as_of, day_reply |-> day_reply,
                      prev_reply |-> prev_reply]
          /\ ret' = profit_from_provider(as_of, day_reply, prev_reply)
    /\ UNCHANGED <<environ, taskVars, chatVars>>

GetProfit ==
    /\ call = NoCall
    /\ \E as_of \in AsOfs, day_reply \in DayReplies, prev_reply \in PrevReplies :
          /\ call' = [op |-> "get_profit", as_of |-> as_of, reply |-> day_reply,
                      prev_reply |-> prev_reply]
          /\ ret' = get_profit(environ, as_of, day_reply, prev_reply)
    /\ UNCHANGED <<environ, taskVars, chatVars>>

(***************************************************************************)
(* sentiment.py: GET /sentiment/                                           *)
(***************************************************************************)
Bool(b) == [t |-> "bool", v |-> b]
\* The mean sum / n of the matched scores, kept as the fraction.
Mean(sum, n) == [t |-> "mean", sum |-> sum, n |-> n]

\* SECONDS_BETWEEN_CALLS: the default of AV_SECONDS_BETWEEN_CALLS.
SECONDS_BETWEEN_CALLS == 12

\* t.strip().upper() on the ticker spellings of the model.
StripUpper(t) ==
    CASE t \in {"aapl", " AAPL ", "AAPL"} -> "AAPL"
      [] t \in {"msft", "MSFT"} -> "MSFT"
      [] t \in {"", " "} -> ""
      [] OTHER -> t

SeqRange(q) == {q[i] : i \in 1..Len(q)}

\* The same loop without the `u not in seen` test.
RECURSIVE UniqKeepingRepeats(_, _, _)
UniqKeepingRepeats(tickers, i, uniq) ==
    IF i > Len(tickers) THEN uniq
    ELSE LET u == StripUpper(tickers[i])
         IN UniqKeepingRepeats(tickers, i + 1, IF u # "" THEN Append(uniq, u) ELSE uniq)

RECURSIVE UniqFrom(_, _, _)
UniqFrom(tickers, i, uniq) ==
    IF i > Len(tickers) THEN uniq
    ELSE LET u == StripUpper(tickers[i])
         IN UniqFrom(tickers, i + 1, IF u # "" /\ u \notin SeqRange(uniq) THEN Append(uniq, u) ELSE uniq)

_label_from_score(score) ==
    IF score = Null THEN Null
    ELSE IF score.sum > 0 THEN Str("Positive")
    ELSE IF score.sum < 0 THEN Str("Negative")
    ELSE Str("Neutral")

\* The same loop without the test of the entry's ticker.
RECURSIVE EntryScoresAnyTicker(_, _, _, _)
EntryScoresAnyTicker(entries, ticker, min_relevance, i) ==
    IF i > Len(entries) THEN <<>>
    ELSE LET ts == entries[i]
             rel == IF "relevance_score" \in DOMAIN ts.v
                    THEN (IF PyFloat(ts.v["relevance_score"]).exc = "none"
                          THEN PyFloat(ts.v["relevance_score"]).val.v ELSE 0)
                    ELSE 0
             score == PyFloat(Get(ts, "ticker_sentiment_score"))
             kept == /\ (min_relevance # Null => ~(rel < min_relevance.v))
                     /\ score.exc = "none"
         IN (IF kept THEN <<score.val.v>> ELSE <<>>)
            \o EntryScoresAnyTicker(entries, ticker, min_relevance, i + 1)

\* The scores one ticker_sentiment list contributes, in order.
RECURSIVE EntryScores(_, _, _, _)
EntryScores(entries, ticker, min_relevance, i) ==
    IF i > Len(entries) THEN <<>>
    ELSE LET ts == entries[i]
             rel == IF "relevance_score" \in DOMAIN ts.v
                    THEN (IF PyFloat(ts.v["relevance_score"]).exc = "none"
                          THEN PyFloat(ts.v["relevance_score"]).val.v ELSE 0)
                    ELSE 0
             score == PyFloat(Get(ts, "ticker_sentiment_score"))
             kept == /\ Get(ts, "ticker") = Str(ticker)
                     /\ (min_relevance # Null => ~(rel < min_relevance.v))
                     /\ score.exc = "none"
         IN (IF kept THEN <<score.val.v>> ELSE <<>>)
            \o EntryScores(entries, ticker, min_relevance, i + 1)

RECURSIVE FeedScores(_, _, _, _)
FeedScores(feed, ticker, min_relevance, i) ==
    IF i > Len(feed) THEN <<>>
    ELSE EntryScores(Or(Get(feed[i], "ticker_sentiment"), EmptyList).v, ticker, min_relevance, 1)
         \o FeedScores(feed, ticker, min_relevance, i + 1)

RECURSIVE Sum(_)
Sum(q) == IF q = <<>> THEN 0 ELSE Head(q) + Sum(Tail(q))

\* An item whose `good` needs the average to exceed the threshold.
sentiment_item_strict(ticker, data, good_threshold, min_relevance) ==
    IF "Information" \in DOMAIN data.v \/ "Note" \in DOMAIN data.v
    THEN [ticker |-> ticker, article_count |-> 0, avg_sentiment |-> Null, label |-> Null, good |-> Null]
    ELSE LET feed == Or(Get(data, "feed"), EmptyList).v
             scores == FeedScores(feed, ticker, min_relevance, 1)
             avg == IF Len(scores) > 0 THEN Mean(Sum(scores), Len(scores)) ELSE Null
         IN [ticker |-> ticker, article_count |-> Len(feed), avg_sentiment |-> avg,
             label |-> _label_from_score(avg),
             good |-> Bool(avg # Null /\ avg.sum > good_threshold * avg.n)]

\* The item of one ticker from its provider payload.
SentimentItemOf(ticker, data, good_threshold, min_relevance) ==
    IF "Information" \in DOMAIN data.v \/ "Note" \in DOMAIN data.v
    THEN [ticker |-> ticker, article_count |-> 0, avg_sentiment |-> Null, label |-> Null, good |-> Null]
    ELSE LET feed == Or(Get(data, "feed"), EmptyList).v
             scores == FeedScores(feed, ticker, min_relevance, 1)
             avg == IF Len(scores) > 0 THEN Mean(Sum(scores), Len(scores)) ELSE Null
         IN [ticker |-> ticker, article_count |-> Len(feed), avg_sentiment |-> avg,
             label |-> _label_from_score(avg),
             good |-> Bool(avg # Null /\ avg.sum >= good_threshold * avg.n)]

CallEvent(ticker) == [ev |-> "call", ticker |-> ticker, seconds |-> 0]
SleepEvent == [ev |-> "sleep", ticker |-> "", seconds |-> SECONDS_BETWEEN_CALLS]

\* The same loop sleeping after every call, the last one included.
RECURSIVE SentimentLoopSleepingAlways(_, _, _, _, _, _, _)
SentimentLoopSleepingAlways(uniq, replies, good_threshold, min_relevance, i, results, log) ==
    IF i > Len(uniq)
    THEN [status |-> 200, detail |-> Null,
          data |-> [tickers |-> uniq, used_threshold |-> good_threshold, results |-> results],
          calls |-> Len(uniq), log |-> log]
    ELSE LET reply == replies[i]
             called == Append(log, CallEvent(uniq[i]))
         IN IF reply.net = "error" \/ reply.body = NotJson
            THEN [status |-> 502, detail |-> Str("Failed to query Alpha Vantage"), data |-> Null,
                  calls |-> i, log |-> called]
            ELSE IF ~isinstance_dict(reply.body)
            THEN [status |-> 500, detail |-> Str("AttributeError"), data |-> Null, calls |-> i,
                  log |-> called]
            ELSE SentimentLoopSleepingAlways(uniq, replies, good_threshold, min_relevance, i + 1,
                                             Append(results,
                                                    SentimentItemOf(uniq[i], reply.body,
                                                                    good_threshold, min_relevance)),
                                             Append(called, SleepEvent))

\* The same loop leaving out a ticker whose call failed and going on with the rest.
RECURSIVE SentimentLoopSkippingFailed(_, _, _, _, _, _, _)
SentimentLoopSkippingFailed(uniq, replies, good_threshold, min_relevance, i, results, log) ==
    IF i > Len(uniq)
    THEN [status |-> 200, detail |-> Null,
          data |-> [tickers |-> uniq, used_threshold |-> good_threshold, results |-> results],
          calls |-> Len(uniq), log |-> log]
    ELSE LET reply == replies[i]
             called == Append(log, CallEvent(uniq[i]))
             slept == IF i < Len(uniq) THEN Append(called, SleepEvent) ELSE called
         IN IF reply.net = "error" \/ reply.body = NotJson
            THEN SentimentLoopSkippingFailed(uniq, replies, good_threshold, min_relevance, i + 1,
                                             results, slept)
            ELSE IF ~isinstance_dict(reply.body)
            THEN [status |-> 500, detail |-> Str("AttributeError"), data |-> Null, calls |-> i,
                  log |-> called]
            ELSE SentimentLoopSkippingFailed(uniq, replies, good_threshold, min_relevance, i + 1,
                                             Append(results,
                                                    SentimentItemOf(uniq[i], reply.body,
                                                                    good_threshold, min_relevance)),
                                             slept)

\* The loop over the deduplicated tickers; log is the calls and sleeps so far.
RECURSIVE SentimentLoop(_, _, _, _, _, _, _)
SentimentLoop(uniq, replies, good_threshold, min_relevance, i, results, log) ==
    IF i > Len(uniq)
    THEN [status |-> 200, detail |-> Null,
          data |-> [tickers |-> uniq, used_threshold |-> good_threshold, results |-> results],
          calls |-> Len(uniq), log |-> log]
    ELSE LET reply == replies[i]
             called == Append(log, CallEvent(uniq[i]))
         IN IF reply.net = "error" \/ reply.body = NotJson
            THEN [status |-> 502, detail |-> Str("Failed to query Alpha Vantage"), data |-> Null,
                  calls |-> i, log |-> called]
            \* `"Information" in data` / data.get on a payload that is no mapping
            ELSE IF ~isinstance_dict(reply.body)
            THEN [status |-> 500, detail |-> Str("AttributeError"), data |-> Null, calls |-> i,
                  log |-> called]
            ELSE SentimentLoop(uniq, replies, good_threshold, min_relevance, i + 1,
                               Append(results, SentimentItemOf(uniq[i], reply.body, good_threshold,
                                                               min_relevance)),
                               IF i < Len(uniq) THEN Append(called, SleepEvent) ELSE called)

get_sentiment(env, tickers, good_threshold, min_relevance, replies) ==
    IF "ALPHAVANTAGE_API_KEY" \notin env
    THEN [status |-> 500, detail |-> Str("ALPHAVANTAGE_API_KEY not configured"), data |-> Null,
          calls |-> 0, log |-> <<>>]
    ELSE SentimentLoop(UniqFrom(tickers, 1, <<>>), replies, good_threshold, min_relevance, 1, <<>>, <<>>)

(***************************************************************************)
(* Inputs of GET /sentiment                                                *)
(***************************************************************************)
MaxTickers == 2

TickerSpellings == {"aapl", " AAPL ", "MSFT", " "}
Entry(ticker, score, relevance) ==
    MergeAll(<<KV("ticker", Str(ticker)), KV("ticker_sentiment_score", score),
               KV("relevance_score", relevance)>>)
Article(entries) == KV("ticker_sentiment", List(entries))
Feeds ==
    {<<>>,
     <<Article(<<Entry("AAPL", Num(10), Num(80))>>)>>,
     <<Article(<<Entry("AAPL", Num(10), Num(80)), Entry("MSFT", Num(-20), Num(90))>>),
       Article(<<Entry("AAPL", Num(-10), Num(20))>>)>>,
     <<Article(<<Entry("AAPLX", Num(50), Num(90))>>), Article(<<Entry("MSFT", Str("x"), Num(90))>>)>>,
     <<Article(<<Entry("AAPL", Num(7), Num(50)), Entry("MSFT", Num(7), Num(40))>>)>>}
SentimentReplies ==
    {NetworkError, Response(200, NotJson), Response(500, KV("error", Str("server error"))),
     Response(200, KV("Information", Str("rate limit"))), Response(200, KV("Note", Str("slow down")))}
    \cup {Response(200, KV("feed", List(f))) : f \in Feeds}

GetSentiment ==
    /\ call = NoCall
    /\ \E tickers \in SeqsUpTo(TickerSpellings, MaxTickers) \ {<<>>},
          good_threshold \in {7}, min_relevance \in {Null, Num(50)} :
          \E replies \in [1..Len(UniqFrom(tickers, 1, <<>>)) -> SentimentReplies] :
             /\ call' = [op |-> "get_sentiment", tickers |-> tickers, good_threshold |-> good_threshold,
                         min_relevance |-> min_relevance, replies |-> replies,
                         reply |-> IF Len(replies) > 0 THEN replies[1] ELSE Response(200, EmptyDict)]
             /\ ret' = get_sentiment(environ, tickers, good_threshold, min_relevance, replies)
    /\ UNCHANGED <<environ, taskVars, chatVars>>

(***************************************************************************)
(* chat_service.py: BrowserUseClient.run_task                              *)
(***************************************************************************)
\* An outbound request that is never made.
NoReply == [net |-> "none", status |-> 0, body |-> NotJson]
TerminalStatuses == {"finished", "failed", "stopped"}

\* json.dumps of the schemas of the model.
JsonDumps(x) == IF x = KV("type", Str("object")) THEN Str("{\"type\": \"object\"}") ELSE Str("[]")

\* What an HTTP exchange raises: a transport error, or raise_for_status on a non-2xx.
Raised(reply) ==
    IF reply.net = "error" THEN "ConnectError"
    ELSE IF ~Is2xx(reply.status) THEN "HTTPStatusError"
    ELSE "none"

TaskFailure(exc, reply, log) ==
    [exc |-> exc, http_status |-> IF exc = "HTTPStatusError" THEN reply.status ELSE 0,
     result |-> Null, log |-> log]

\* The status polls, from poll i on: until a terminal status or a failure.
RECURSIVE PollFrom(_, _, _)
PollFrom(polls, i, log) ==
    LET sent == Append(log, [req |-> "status", schema |-> Null])
    IN IF Raised(polls[i]) # "none"
       THEN [exc |-> Raised(polls[i]), reply |-> polls[i], status |-> Null, log |-> sent]
       ELSE IF polls[i].body.t = "str" /\ polls[i].body.v \in TerminalStatuses
       THEN [exc |-> "none", reply |-> polls[i], status |-> polls[i].body, log |-> sent]
       ELSE PollFrom(polls, i + 1, sent)

\* The REST branch after a submission was accepted with `accepted`.
run_task_accepted(accepted, script, log) ==
    IF accepted.body = NotJson THEN TaskFailure("JSONDecodeError", accepted, log)
    ELSE IF ~isinstance_dict(accepted.body) \/ "id" \notin DOMAIN accepted.body.v
    THEN TaskFailure("KeyError", accepted, log)
    ELSE LET polled == PollFrom(script.polls, 1, log)
             fetched == Append(polled.log, [req |-> "details", schema |-> Null])
         IN IF polled.exc # "none" THEN TaskFailure(polled.exc, polled.reply, polled.log)
            ELSE IF Raised(script.details) # "none"
            THEN TaskFailure(Raised(script.details), script.details, fetched)
            ELSE IF script.details.body = NotJson
            THEN TaskFailure("JSONDecodeError", script.details, fetched)
            ELSE [exc |-> "none", http_status |-> 0,
                  result |-> [task_id |-> accepted.body.v["id"], status |-> polled.status,
                              details |-> script.details.body],
                  log |-> fetched]

\* A run_task that resubmits after any rejection of the first submission.
run_task_retrying_any(structured_output_json, script) ==
    IF structured_output_json # Null
    THEN LET first == <<[req |-> "run-task", schema |-> structured_output_json]>>
             second == Append(first, [req |-> "run-task", schema |-> JsonDumps(structured_output_json)])
         IN IF script.submit.net = "error" THEN TaskFailure("ConnectError", script.submit, first)
            ELSE IF Is2xx(script.submit.status) THEN run_task_accepted(script.submit, script, first)
            ELSE (IF Raised(script.retry) # "none"
                  THEN TaskFailure(Raised(script.retry), script.retry, second)
                  ELSE run_task_accepted(script.retry, script, second))
    ELSE IF script.sdk = "error" THEN TaskFailure("SdkError", NoReply, <<[req |-> "sdk", schema |-> Null]>>)
         ELSE [exc |-> "none", http_status |-> 0,
               result |-> [task_id |-> Str("t1"), status |-> Str("finished"),
                           details |-> KV("output", Str("done"))],
               log |-> <<[req |-> "sdk", schema |-> Null]>>]

run_task(structured_output_json, script) ==
    IF structured_output_json # Null
    THEN LET first == <<[req |-> "run-task", schema |-> structured_output_json]>>
             second == Append(first, [req |-> "run-task", schema |-> JsonDumps(structured_output_json)])
         IN IF script.submit.net = "error" THEN TaskFailure("ConnectError", script.submit, first)
            ELSE IF Is2xx(script.submit.status) THEN run_task_accepted(script.submit, script, first)
            ELSE IF script.submit.status = 422
                    /\ (isinstance_dict(structured_output_json) \/ isinstance_list(structured_output_json))
            THEN (IF Raised(script.retry) # "none"
                  THEN TaskFailure(Raised(script.retry), script.retry, second)
                  ELSE run_task_accepted(script.retry, script, second))
            ELSE TaskFailure("HTTPStatusError", script.submit, first)
    ELSE \* the SDK: create_task, then complete()
         IF script.sdk = "error" THEN TaskFailure("SdkError", NoReply, <<[req |-> "sdk", schema |-> Null]>>)
         ELSE [exc |-> "none", http_status |-> 0,
               result |-> [task_id |-> Str("t1"), status |-> Str("finished"),
                           details |-> KV("output", Str("done"))],
               log |-> <<[req |-> "sdk", schema |-> Null]>>]

(***************************************************************************)
(* chat.py: POST /chat                                                     *)
(***************************************************************************)
\* json.loads on the outputs of the model.
JsonLoads(x) ==
    IF x = Str("{\"answer\": 1}") THEN [exc |-> "none", val |-> KV("answer", Num(1))]
    ELSE [exc |-> "JSONDecodeError", val |-> Null]

\* run_chat once get_client returned: run the task, shape the response.
run_chat_with_client(structured_output_json, script) ==
    LET r == run_task(structured_output_json, script)
    IN IF r.exc = "HTTPStatusError"
       THEN [status |-> r.http_status, detail |-> Str("provider response text"), data |-> Null,
             calls |-> Len(r.log), log |-> r.log]
       ELSE IF r.exc # "none"
       THEN [status |-> 500, detail |-> Str(r.exc), data |-> Null, calls |-> Len(r.log), log |-> r.log]
       \* details.get on something that is no mapping
       ELSE IF ~isinstance_dict(r.result.details)
       THEN [status |-> 500, detail |-> Str("AttributeError"), data |-> Null, calls |-> Len(r.log),
             log |-> r.log]
       ELSE LET output_raw == Get(r.result.details, "output")
                parsed == IF isinstance_str(output_raw) /\ Truthy(structured_output_json)
                          THEN JsonLoads(output_raw).val ELSE Null
            IN \* ChatResult declares output_raw as Optional[str]
               IF ~StrFieldOk(output_raw)
               THEN [status |-> 500, detail |-> Str("ValidationError"), data |-> Null,
                     calls |-> Len(r.log), log |-> r.log]
               ELSE [status |-> 200, detail |-> Null,
                     data |-> [task_id |-> r.result.task_id, status |-> r.result.status,
                               output_raw |-> output_raw, output_parsed |-> parsed],
                     calls |-> Len(r.log), log |-> r.log]

\* BrowserUseClient.__init__ raises ValueError without a key; run_chat answers 500.
ClientUnavailable(env) == ~Truthy(settings_getattr(env, "browser_use_api_key").val)
NotConfigured ==
    [status |-> 500, detail |-> Str("BROWSER_USE_API_KEY not configured"), data |-> Null, calls |-> 0,
     log |-> <<>>]

(***************************************************************************)
(* Inputs of POST /chat                                                    *)
(***************************************************************************)
Schemas == {Null, KV("type", Str("object")), EmptyList, Str("{\"type\": \"object\"}")}
Accepted == Response(200, KV("id", Str("t1")))
SubmitReplies == {Accepted, NetworkError, Response(422, NotJson), Response(401, NotJson), Response(500, NotJson)}
RetryReplies == {Accepted, NetworkError, Response(422, NotJson), Response(500, NotJson)}
PollScripts ==
    {<<Response(200, Str("finished"))>>,
     <<Response(200, Str("running")), Response(200, Str("failed"))>>,
     <<Response(200, Str("created")), Response(200, Str("running")), Response(200, Str("stopped"))>>,
     <<Response(200, Str("running")), Response(500, NotJson)>>,
     <<NetworkError>>}
DetailReplies ==
    {Response(200, KV("output", Str("{\"answer\": 1}"))), Response(200, KV("output", Str("plain text"))),
     Response(200, KV("output", Null)), Response(404, NotJson), NetworkError}

\* The provider's part of one request: only the exchanges run_task gets to are chosen.
Scripts(schema) ==
    IF schema = Null
    THEN {[submit |-> NoReply, retry |-> NoReply, polls |-> <<>>, details |-> NoReply, sdk |-> o] :
             o \in {"ok", "error"}}
    ELSE UNION {
           UNION {
             LET accepted == \/ Is2xx(s.status)
                             \/ (s.status = 422 /\ Is2xx(r.status))
             IN {[submit |-> s, retry |-> r, polls |-> p, details |-> d, sdk |-> "unused"] :
                    p \in IF accepted THEN PollScripts ELSE {<<>>},
                    d \in IF accepted THEN DetailReplies ELSE {NoReply}} :
             r \in IF s.status = 422 /\ schema.t \in {"dict", "list"} THEN RetryReplies ELSE {NoReply}} :
           s \in SubmitReplies}

\* One call of BrowserUseClient.run_task on a constructed client.
RunTask ==
    /\ call = NoCall
    /\ \E schema \in Schemas :
          \E script \in Scripts(schema) :
             /\ call' = [op |-> "run_task", structured_output_json |-> schema, script |-> script]
             /\ ret' = run_task(schema, script)
    /\ UNCHANGED <<environ, taskVars, chatVars>>

\* One /chat request handled with no other request in flight.
RunChat ==
    /\ call = NoCall
    /\ \A t \in Threads : pc[t] = "idle"
    /\ \E schema \in Schemas :
          \E script \in Scripts(schema) :
             /\ call' = [op |-> "run_chat", structured_output_json |-> schema, script |-> script,
                         reply |-> IF schema = Null THEN NoReply ELSE script.submit]
             /\ IF client_singleton = 0 /\ ClientUnavailable(environ)
                THEN /\ ret' = NotConfigured
                     /\ UNCHANGED <<client_singleton, constructed>>
                ELSE /\ ret' = run_chat_with_client(schema, script)
                     /\ IF client_singleton = 0
                        THEN /\ constructed' = constructed + 1
                             /\ client_singleton' = constructed + 1
                        ELSE UNCHANGED <<client_singleton, constructed>>
    /\ UNCHANGED <<environ, taskVars, threadVars>>

(***************************************************************************)
(* chat_service.get_client under concurrent /chat requests                 *)
(*                                                                         *)
(* run_chat is a plain `def` route: the framework runs each request on a   *)
(* worker thread, and the interpreter may switch threads between the test  *)
(* of client_singleton, the constructor call, the store and the return.    *)
(***************************************************************************)
\* A request arrives and its handler calls get_client.
ChatArrive(t) ==
    /\ pc[t] = "idle"
    /\ pc' = [pc EXCEPT ![t] = "test"]
    /\ UNCHANGED <<environ, taskVars, callVars, client_singleton, constructed, local>>

\* if client_singleton is None:
GetClientTest(t) ==
    /\ pc[t] = "test"
    /\ local' = [local EXCEPT ![t].seen = client_singleton]
    /\ pc' = [pc EXCEPT ![t] = IF client_singleton = 0 THEN "construct" ELSE "return"]
    /\ UNCHANGED <<environ, taskVars, callVars, client_singleton, constructed>>

\* BrowserUseClient(settings.browser_use_api_key): a new instance, or ValueError.
GetClientConstruct(t) ==
    /\ pc[t] = "construct"
    /\ IF ClientUnavailable(environ)
       THEN /\ pc' = [pc EXCEPT ![t] = "respond"]
            /\ UNCHANGED <<constructed, local>>
       ELSE /\ constructed' = constructed + 1
            /\ local' = [local EXCEPT ![t].made = constructed + 1]
            /\ pc' = [pc EXCEPT ![t] = "store"]
    /\ UNCHANGED <<environ, taskVars, callVars, client_singleton>>

\* client_singleton = <the new instance>
GetClientStore(t) ==
    /\ pc[t] = "store"
    /\ client_singleton' = local[t].made
    /\ pc' = [pc EXCEPT ![t] = "return"]
    /\ UNCHANGED <<environ, taskVars, callVars, constructed, local>>

\* return client_singleton
GetClientReturn(t) ==
    /\ pc[t] = "return"
    /\ local' = [local EXCEPT ![t].client = client_singleton]
    /\ pc' = [pc EXCEPT ![t] = "respond"]
    /\ UNCHANGED <<environ, taskVars, callVars, client_singleton, constructed>>

\* The handler runs its task with the client it got and answers.
ChatRespond(t) ==
    /\ pc[t] = "respond"
    /\ pc' = [pc EXCEPT ![t] = "idle"]
    /\ local' = [local EXCEPT ![t] = NoLocals]
    /\ UNCHANGED <<environ, taskVars, callVars, client_singleton, constructed>>

NextChat ==
    \/ \E t \in Threads : ChatArrive(t)
    \/ \E t \in Threads : GetClientTest(t)
    \/ \E t \in Threads : GetClientConstruct(t)
    \/ \E t \in Threads : GetClientStore(t)
    \/ \E t \in Threads : GetClientReturn(t)
    \/ \E t \in Threads : ChatRespond(t)
SpecChat == Init /\ [][NextChat]_vars

(***************************************************************************)
(* Specifications                                                          *)
(***************************************************************************)
\* The routes, one request at a time.
Next == GetEstimates \/ GetSentiment \/ GetTimeSeries \/ GetProfit \/ RunChat \/ Return
Spec == Init /\ [][Next]_vars

\* The normalizers and the provider-facing halves of the services, applied directly.
NextNormalizers ==
    ParseEstimateNode \/ GetEstimates \/ NormalizePoints \/ FetchAndNormalize \/ ProfitFromProvider \/ Return
SpecNormalizers == InitUnits /\ [][NextNormalizers]_vars

(***************************************************************************)
(* C1 - C7                                                                 *)
(***************************************************************************)
\* The provider answered 200 with a JSON mapping that carries no throttling marker.
EstimatesAnswered ==
    /\ call.op = "get_estimates"
    /\ call.reply.net = "ok"
    /\ call.reply.status = 200
    /\ call.reply.body.t = "dict"
    /\ DOMAIN call.reply.body.v \cap {"Information", "Note", "Error Message"} = {}

\* C1: one malformed record cannot fail the response: _parse_estimate_node raises for
\* no raw record (a record that is no mapping, an ill-typed fiscal date, quarter or
\* revision history included), and get_estimates returns one point for each record
\* it selected.
C1_MalformedRecordCannotFail ==
    /\ call.op = "_parse_estimate_node" =>
          /\ ret.exc = "none"
          /\ (call.node.t = "dict" /\ DOMAIN call.node.v \cap {"revisions", "revisionHistory"} = {}
                => ~ret.point.eps_revision.revised)
    /\ EstimatesAnswered =>
          /\ ret.status = 200
          /\ Len(ret.data.points)
               = Len(SelectedNodes(_pluck_lists(call.reply.body), call.period, call.limit))

\* C2: in _normalize_points a field whose value fails numeric conversion yields None
\* for that field only: nothing is raised and every row with a timestamp is emitted.
C2_FieldFailureYieldsNone ==
    call.op = "_normalize_points" =>
       /\ ret.exc = "none"
       /\ Len(ret.points) = Cardinality({i \in 1..Len(call.rows.v) : Get(call.rows.v[i], "t") # Null})

\* C3: with limit N smaller than the number of daily bars in the window, the points
\* returned are the N latest bars in ascending order; never more than N points.
C3_LatestBars ==
    (call.op = "fetch_and_normalize" /\ call.reply = AggregatesReply(call.bars, call.limit)) =>
       /\ ret.exc = "none"
       /\ Len(ret.points) <= call.limit
       /\ call.limit < call.bars =>
             /\ Len(ret.points) = call.limit
             /\ \A i \in 1..Len(ret.points) :
                   ret.points[i].timestamp = FromTimestampMs((call.bars - call.limit + i) * DayMs)

\* The reply is a 200 whose payload has no series and carries an error or
\* informational marker.
RejectedWithMarker(reply) ==
    /\ reply.net = "ok"
    /\ reply.status = 200
    /\ reply.body.t = "dict"
    /\ ~Truthy(Get(reply.body, "results"))
    /\ \/ DOMAIN reply.body.v \cap {"error", "Error Message", "Note", "Information"} # {}
       \/ Get(reply.body, "status") = Str("ERROR")

\* C4: a payload with no series and an error / informational marker makes the
\* time-series fetch fail; it never comes back as a successful empty list of points.
C4_RejectionFails ==
    /\ (call.op = "fetch_and_normalize" /\ RejectedWithMarker(call.reply)) => ret.exc # "none"
    /\ (call.op = "get_time_series" /\ RejectedWithMarker(call.reply)) => ret.status = 502

Routes == {"get_estimates", "get_sentiment", "get_time_series", "get_profit", "run_chat"}
\* The environment variable holding the provider key a route needs.
KeyOf(op) ==
    CASE op \in {"get_estimates", "get_sentiment"} -> "ALPHAVANTAGE_API_KEY"
      [] op = "get_time_series" -> "POLYGON_API_KEY"
      [] op = "get_profit" -> "POLYGON_API_KEY_2"
      [] OTHER -> "BROWSER_USE_API_KEY"

\* C5: a route whose provider key is absent answers 500 (a configuration fault), not
\* a 4xx and not 502, and issues no outbound provider call.
C5_MissingKeyIs500 ==
    (call.op \in Routes /\ KeyOf(call.op) \notin environ) => (ret.status = 500 /\ ret.calls = 0)

\* The first provider exchange of the request failed: a transport error or a non-2xx
\* response (the 422 that run_task answers with its one resubmission set aside).
ProviderFailed ==
    /\ call.op \in Routes
    /\ KeyOf(call.op) \in environ
    /\ \/ call.reply.net = "error"
       \/ call.reply.net = "ok" /\ ~Is2xx(call.reply.status) /\ call.reply.status # 422

\* C6: on every route a network error or a non-2xx provider response ends the
\* request with 502: never a 4xx, never 500, never a success built from that reply.
C6_ProviderFailureIs502 == ProviderFailed => ret.status = 502

\* C7: the browser-task client is constructed at most once, and all requests get the
\* same instance, also when concurrent handlers all find the singleton unset.
C7_ConstructedOnce ==
    /\ constructed <= 1
    /\ \A t, u \in Threads :
          (local[t].client # 0 /\ local[u].client # 0) => local[t].client = local[u].client

(***************************************************************************)
(* C11 - C20                                                               *)
(***************************************************************************)
NextRevisions == RevisionSignal \/ ExtractRevisionValues \/ ParseRevisions \/ Return
SpecRevisions == InitUnits /\ [][NextRevisions]_vars

\* C11: _revision_signal gives revised = false and first, last, delta, sign all null
\* for fewer than 2 values; otherwise revised = true, first and last are the first and
\* last elements (not min / max), delta = last - first, sign is good / bad / flat for
\* last > / < / = first. sign is non-null iff revised.
C11_RevisionSignal ==
    call.op = "_revision_signal" =>
       LET n == Len(call.values)
       IN /\ n < 2 => ret = [revised |-> FALSE, first |-> Null, last |-> Null, delta |-> Null,
                             sign |-> Null]
          /\ n >= 2 =>
                /\ ret.revised
                /\ ret.first = call.values[1]
                /\ ret.last = call.values[n]
                /\ ret.delta = Num(call.values[n].v - call.values[1].v)
                /\ ret.sign \in {Str("good"), Str("bad"), Str("flat")}
                /\ ret.sign = Str("good") <=> call.values[n].v > call.values[1].v
                /\ ret.sign = Str("bad") <=> call.values[n].v < call.values[1].v
                /\ ret.sign = Str("flat") <=> call.values[n].v = call.values[1].v
          /\ (ret.sign # Null) <=> ret.revised

\* A history whose first and last elements are not its smallest and largest.
C11_Witness ==
    /\ call.op = "_revision_signal"
    /\ call.values = <<Num(50), Num(53), Num(0)>>
    /\ ret.sign = Str("bad")
    /\ ret.delta = Num(0 - 50)

\* The snapshots of a revision history for `kind`, and the candidate paths of its layout.
SnapshotsOf(rev_node, kind) ==
    IF rev_node.t = "list" THEN rev_node.v
    ELSE IF rev_node.t = "dict" /\ Get(rev_node, kind).t = "list" THEN Get(rev_node, kind).v
    ELSE <<>>
PathsOf(rev_node, kind) ==
    IF rev_node.t = "list" THEN (IF kind = "eps" THEN EpsRevisionPaths ELSE RevenueRevisionPaths)
    ELSE SubRevisionPaths(kind)
\* The average snapshot i yields (null when it yields none).
AverageOf(rev_node, kind, i) ==
    IF SnapshotsOf(rev_node, kind)[i].t = "dict"
    THEN _pick_first(SnapshotsOf(rev_node, kind)[i], PathsOf(rev_node, kind), TRUE)
    ELSE Null
Yielding(rev_node, kind) ==
    {i \in 1..Len(SnapshotsOf(rev_node, kind)) : AverageOf(rev_node, kind, i) # Null}
\* The non-null averages in the snapshots' order.
AveragesInOrder(rev_node, kind) ==
    [k \in 1..Cardinality(Yielding(rev_node, kind)) |->
        AverageOf(rev_node, kind,
                  CHOOSE i \in Yielding(rev_node, kind) :
                     Cardinality({j \in Yielding(rev_node, kind) : j <= i}) = k)]
\* The revision history _parse_estimate_node reads from a record of ParseRevisions.
HistoryOf(node) == node.v[CHOOSE k \in RevisionKeys : k \in DOMAIN node.v]

\* C12: for a revision history that is a list of snapshots, or a mapping from eps /
\* revenue to a list of snapshots, the values handed to _revision_signal are exactly
\* the non-null averages of the snapshots in their original order: first / last are
\* the averages of the first / last snapshot yielding one, and revised is true iff at
\* least two snapshots yield a value.
C12_ValuesInOrder ==
    /\ call.op = "_extract_revision_values" => ret = AveragesInOrder(call.rev_node, call.kind)
    /\ (call.op = "_parse_estimate_node" /\ Truthy(HistoryOf(call.node))) =>
          /\ ret.exc = "none"
          /\ \A kind \in {"eps", "revenue"} :
                LET vs == AveragesInOrder(HistoryOf(call.node), kind)
                    sig == IF kind = "eps" THEN ret.point.eps_revision
                           ELSE ret.point.revenue_revision
                IN /\ sig.revised <=> Len(vs) >= 2
                   /\ sig.revised => (sig.first = vs[1] /\ sig.last = vs[Len(vs)])

\* A history whose first snapshot yields nothing and whose values are not in
\* ascending order: the skipped snapshot does not move the others.
C12_Witness ==
    /\ call.op = "_parse_estimate_node"
    /\ HistoryOf(call.node) = List(<<Str("junk"), EpsSnap(53), EpsSnap(50)>>)
    /\ ret.point.eps_revision.first = Num(53)
    /\ ret.point.eps_revision.last = Num(50)
    /\ ~ret.point.revenue_revision.revised
MarkerKeys == {"Information", "Note", "Error Message"}
\* The estimates provider answered with a payload that has a top-level marker key.
AnsweredWithMarker ==
    /\ call.op = "get_estimates"
    /\ "ALPHAVANTAGE_API_KEY" \in environ
    /\ call.reply.net = "ok"
    /\ call.reply.body.t = "dict"
    /\ DOMAIN call.reply.body.v \cap MarkerKeys # {}

\* C13: whenever the estimates provider's payload contains a top-level Information,
\* Note or Error Message key, get_estimates ends with 502 and a detail carrying the
\* provider's message; it never returns a successful response for that payload.
C13_MarkerIsGatewayFailure ==
    AnsweredWithMarker =>
       /\ ret.status = 502
       /\ ret.detail \in {call.reply.body.v[k] : k \in DOMAIN call.reply.body.v \cap MarkerKeys}
\* The indices of the rows that carry a timestamp, and the k-th of them.
RowsWithT(rows) == {i \in 1..Len(rows) : Get(rows[i], "t") # Null}
KthWithT(rows, k) ==
    CHOOSE i \in RowsWithT(rows) : Cardinality({j \in RowsWithT(rows) : j <= i}) = k

\* C14: _normalize_points drops exactly the rows whose t is missing or None and
\* nothing else: the output has one point for every other row, and the points keep
\* the relative order of their rows (no re-sorting, no deduplication).
C14_DropsOnlyRowsWithoutT ==
    call.op = "_normalize_points" =>
       /\ Len(ret.points) = Cardinality(RowsWithT(call.rows.v))
       /\ \A k \in 1..Len(ret.points) :
             ret.points[k].timestamp
                = FromTimestampMs(Get(call.rows.v[KthWithT(call.rows.v, k)], "t").v)
NextSentiment == GetSentiment \/ Return
SpecSentiment == InitUnits /\ [][NextSentiment]_vars

\* The positions at which a non-blank ticker occurs for the first time, and the k-th.
FirstSeen(tickers) ==
    {i \in 1..Len(tickers) :
        /\ StripUpper(tickers[i]) # ""
        /\ \A j \in 1..(i - 1) : StripUpper(tickers[j]) # StripUpper(tickers[i])}
KthFirstSeen(tickers, k) ==
    CHOOSE i \in FirstSeen(tickers) : Cardinality({j \in FirstSeen(tickers) : j <= i}) = k

\* C15: a successful get_sentiment returns exactly one item per distinct ticker after
\* trimming and upper-casing, in order of first occurrence; blank tickers produce no
\* item; results[i].ticker = tickers[i] of the response, and both have the same length.
C15_OneItemPerTicker ==
    (call.op = "get_sentiment" /\ ret.status = 200) =>
       /\ Len(ret.data.tickers) = Cardinality(FirstSeen(call.tickers))
       /\ \A k \in 1..Len(ret.data.tickers) :
             ret.data.tickers[k] = StripUpper(call.tickers[KthFirstSeen(call.tickers, k)])
       /\ Len(ret.data.results) = Len(ret.data.tickers)
       /\ \A k \in 1..Len(ret.data.results) : ret.data.results[k].ticker = ret.data.tickers[k]

\* Two spellings of one ticker give one item.
C15_Witness ==
    /\ call.op = "get_sentiment"
    /\ call.tickers = <<"aapl", " AAPL ">>
    /\ ret.status = 200
    /\ ret.data.tickers = <<"AAPL">>
    /\ Len(ret.data.results) = 1
\* The payload answered for the k-th deduplicated ticker carries a throttling /
\* informational marker.
Throttled(k) == DOMAIN call.replies[k].body.v \cap {"Information", "Note"} # {}

\* C16: an item's avg_sentiment, label and good are all null exactly when the
\* provider's response for that ticker carried a throttling / informational marker;
\* without a marker good is a boolean, true iff an average exists and is >= the
\* threshold (false when no score matched).
C16_ThrottledVersusNoSentiment ==
    (call.op = "get_sentiment" /\ ret.status = 200) =>
       \A k \in 1..Len(ret.data.results) :
          LET item == ret.data.results[k]
          IN /\ Throttled(k) <=>
                   (item.avg_sentiment = Null /\ item.label = Null /\ item.good = Null)
             /\ ~Throttled(k) =>
                   /\ item.good \in {Bool(TRUE), Bool(FALSE)}
                   /\ item.good.v <=>
                         /\ item.avg_sentiment # Null
                         /\ item.avg_sentiment.sum >= call.good_threshold * item.avg_sentiment.n
                   /\ item.avg_sentiment = Null => item.good = Bool(FALSE)

\* One request with a throttled ticker and a ticker whose average equals the threshold.
C16_Witness ==
    /\ call.op = "get_sentiment"
    /\ ret.status = 200
    /\ Len(ret.data.results) = 2
    /\ Throttled(1)
    /\ ret.data.results[1].good = Null
    /\ ~Throttled(2)
    /\ ret.data.results[2].avg_sentiment = Mean(7, 1)
    /\ ret.data.results[2].good = Bool(TRUE)

\* The articles answered for the k-th ticker, and the entries that count for it:
\* pairs <<article, entry>> with the ticker itself, a numeric score and, when
\* min_relevance is set, a relevance not below it.
ArticlesOf(k) == Or(Get(call.replies[k].body, "feed"), EmptyList).v
EntriesOf(k, a) == Or(Get(ArticlesOf(k)[a], "ticker_sentiment"), EmptyList).v
Qualifying(k) ==
    {p \in UNION {{<<a, e>> : e \in 1..Len(EntriesOf(k, a))} : a \in 1..Len(ArticlesOf(k))} :
        LET ts == EntriesOf(k, p[1])[p[2]]
        IN /\ Get(ts, "ticker") = Str(ret.data.tickers[k])
           /\ Get(ts, "ticker_sentiment_score").t = "num"
           /\ call.min_relevance # Null =>
                 (Get(ts, "relevance_score").t = "num"
                  /\ Get(ts, "relevance_score").v >= call.min_relevance.v)}
RECURSIVE TotalScore(_, _)
TotalScore(k, pairs) ==
    IF pairs = {} THEN 0
    ELSE LET p == CHOOSE q \in pairs : TRUE
         IN Get(EntriesOf(k, p[1])[p[2]], "ticker_sentiment_score").v + TotalScore(k, pairs \ {p})

\* C17: for a feed without a marker, article_count is the number of articles in the
\* feed whatever matched, avg_sentiment is the arithmetic mean of the scores of exactly
\* the entries naming the ticker itself whose relevance is not below min_relevance
\* when that is set (None when there is none), and label is Positive / Negative /
\* Neutral for an average > 0 / < 0 / = 0 and null without an average.
C17_MeanOfMatchingEntries ==
    (call.op = "get_sentiment" /\ ret.status = 200) =>
       \A k \in 1..Len(ret.data.results) :
          ~Throttled(k) =>
             LET item == ret.data.results[k]
                 n == Cardinality(Qualifying(k))
                 total == TotalScore(k, Qualifying(k))
             IN /\ item.article_count = Len(ArticlesOf(k))
                /\ item.avg_sentiment = (IF n = 0 THEN Null ELSE Mean(total, n))
                /\ item.label = (IF n = 0 THEN Null
                                 ELSE IF total > 0 THEN Str("Positive")
                                 ELSE IF total < 0 THEN Str("Negative") ELSE Str("Neutral"))

\* Two articles, three entries, two of them for the ticker: their mean is 0.
C17_Witness ==
    /\ call.op = "get_sentiment"
    /\ ret.status = 200
    /\ call.min_relevance = Null
    /\ ret.data.results[1].ticker = "AAPL"
    /\ ret.data.results[1].article_count = 2
    /\ ret.data.results[1].avg_sentiment = Mean(0, 2)
    /\ ret.data.results[1].label = Str("Neutral")

\* C18: a request for n deduplicated tickers that completes issues exactly n provider
\* calls, one at a time in ticker order, and exactly n - 1 delays of
\* SECONDS_BETWEEN_CALLS, each after call i and before call i + 1, also when call i
\* was throttled; no delay precedes the first call and none follows the last.
C18_CallsAndDelays ==
    (call.op = "get_sentiment" /\ ret.status = 200) =>
       LET n == Len(ret.data.tickers)
       IN /\ ret.calls = n
          /\ Len(ret.log) = (IF n = 0 THEN 0 ELSE 2 * n - 1)
          /\ \A i \in 1..n : ret.log[2 * i - 1] = [ev |-> "call", ticker |-> ret.data.tickers[i],
                                                   seconds |-> 0]
          /\ \A i \in 1..(n - 1) : ret.log[2 * i] = [ev |-> "sleep", ticker |-> "",
                                                     seconds |-> SECONDS_BETWEEN_CALLS]

\* Two tickers, the first one throttled: one delay, between the two calls.
C18_Witness ==
    /\ call.op = "get_sentiment"
    /\ ret.status = 200
    /\ Len(ret.log) = 3
    /\ Throttled(1)
    /\ ret.log[1].ev = "call" /\ ret.log[1].ticker = "MSFT"
    /\ ret.log[2].ev = "sleep"
    /\ ret.log[3].ev = "call" /\ ret.log[3].ticker = "AAPL"
\* The closes a pair of provider replies offers: the close of the last bar of the
\* as_of day, and the previous close.
HasClose(reply) ==
    /\ reply.net = "ok"
    /\ reply.status = 200
    /\ reply.body.t = "dict"
    /\ Get(reply.body, "results").t = "list"
    /\ Len(Get(reply.body, "results").v) > 0
LastClose(reply) == Get(Get(reply.body, "results").v[Len(Get(reply.body, "results").v)], "c")
FirstClose(reply) == Get(Get(reply.body, "results").v[1], "c")

\* C19: a /profit request whose provider returns a close for the as_of day and a
\* previous close is answered with price_then = the close of the last bar of that day,
\* price_now = the previous close and profit = price_now - price_then; the day's bar
\* is fetched before the previous close.
C19_ProfitFromCloses ==
    (/\ call.op = "get_profit"
     /\ "POLYGON_API_KEY_2" \in environ
     /\ HasClose(call.reply) /\ LastClose(call.reply).t = "num"
     /\ HasClose(call.prev_reply) /\ FirstClose(call.prev_reply).t = "num") =>
       /\ ret.status = 200
       /\ ret.calls = 2
       /\ ret.data.price_then = LastClose(call.reply)
       /\ ret.data.price_now = FirstClose(call.prev_reply)
       /\ ret.data.profit = Num(FirstClose(call.prev_reply).v - LastClose(call.reply).v)
NextRunTask == RunTask \/ Return
SpecRunTask == InitUnits /\ [][NextRunTask]_vars

\* The positions of the task submissions in the requests run_task sent.
Submissions == {i \in 1..Len(ret.log) : ret.log[i].req = "run-task"}
\* The first submission was rejected with 422 and the schema is a mapping or a list.
RetryCase ==
    /\ call.script.submit.net = "ok"
    /\ call.script.submit.status = 422
    /\ call.structured_output_json.t \in {"dict", "list"}

\* C20: run_task with a structured-output schema sends the submission at most twice.
\* A second submission happens only when the first was rejected with 422 and the
\* schema is a mapping or list; it equals the first except that the schema is
\* re-encoded as a JSON string, and no third follows. Any other rejection, and a
\* rejection of the retry, propagates to the caller without polling.
C20_SingleRetry ==
    (call.op = "run_task" /\ call.structured_output_json # Null) =>
       /\ Submissions \in {{1}, {1, 2}}
       /\ ret.log[1] = [req |-> "run-task", schema |-> call.structured_output_json]
       /\ (2 \in Submissions) <=> RetryCase
       /\ RetryCase =>
             /\ ret.log[2].schema.t = "str"
             /\ ret.log[2].schema = JsonDumps(call.structured_output_json)
       /\ (~RetryCase /\ Raised(call.script.submit) # "none") =>
             (ret.exc = Raised(call.script.submit) /\ Len(ret.log) = 1)
       /\ (RetryCase /\ Raised(call.script.retry) # "none") =>
             (ret.exc = Raised(call.script.retry) /\ Len(ret.log) = 2)

\* A 422 answered by a resubmission that is accepted and runs to the end.
C20_Witness ==
    /\ call.op = "run_task"
    /\ call.structured_output_json = KV("type", Str("object"))
    /\ call.script.submit.status = 422
    /\ ret.exc = "none"
    /\ Submissions = {1, 2}
    /\ ret.log[2].schema = Str("{\"type\": \"object\"}")
    /\ ret.log[3].req = "status"
    /\ ret.log[Len(ret.log)].req = "details"

(***************************************************************************)
(* chat_service.py: run_task with a schema, request by request             *)
(*                                                                         *)
(* The REST branch as the steps it takes against the service: the          *)
(* submission (with its one resubmission), each pass of the poll loop, and *)
(* the fetch of the details. The loop has no pause and no limit on passes. *)
(***************************************************************************)
MaxPolls == 3
StructuredSchemas == Schemas \ {Null}
NonTerminalStatuses == {"created", "running", "paused"}

RunFailed(exc, sent) == [run EXCEPT !.pc = "raised", !.result = Str(exc), !.log = sent]

\* client.post(.../run-task), the resubmission after a 422, task_id = resp.json()["id"]
RunTaskSubmit ==
    /\ run.pc = "idle"
    /\ call = NoCall
    /\ \E schema \in StructuredSchemas, s \in SubmitReplies :
          \E r \in IF s.net = "ok" /\ s.status = 422 /\ (isinstance_dict(schema) \/ isinstance_list(schema))
                   THEN RetryReplies ELSE {NoReply} :
             LET first == <<[req |-> "run-task", schema |-> schema]>>
                 second == Append(first, [req |-> "run-task", schema |-> JsonDumps(schema)])
                 retried == r # NoReply
                 last == IF retried THEN r ELSE s
                 sent == IF retried THEN second ELSE first
             IN IF Raised(last) # "none"
                THEN /\ run' = [RunFailed(Raised(last), sent) EXCEPT !.schema = schema]
                     /\ UNCHANGED remote
                ELSE /\ run' = [run EXCEPT !.pc = "poll", !.schema = schema,
                                           !.task_id = last.body.v["id"], !.log = sent]
                     /\ remote' = [status |-> "created"]
    /\ UNCHANGED <<environ, callVars, chatVars>>

\* What GET .../status can answer while the task is in the state `remote`.
StatusReplies == {Response(200, Str(remote.status)), Response(500, NotJson), NetworkError}

\* The activation after one more pass of the loop: the request is on the log (up to
\* MaxPolls of them), and `pass` alternates so that every pass is a step.
Polled ==
    [run EXCEPT !.polls = IF run.polls < MaxPolls THEN run.polls + 1 ELSE MaxPolls,
                !.pass = 1 - run.pass,
                !.log = IF run.polls < MaxPolls
                        THEN Append(run.log, [req |-> "status", schema |-> Null]) ELSE run.log]

\* A run_task that leaves the poll loop after its first pass, whatever the status.
RunTaskPollOnce ==
    /\ run.pc = "poll"
    /\ \E reply \in StatusReplies :
          IF Raised(reply) # "none"
          THEN run' = [Polled EXCEPT !.pc = "raised", !.result = Str(Raised(reply))]
          ELSE run' = [Polled EXCEPT !.status = reply.body, !.pc = "fetch"]
    /\ UNCHANGED <<environ, callVars, chatVars, remote>>

\* One pass of `while True`: GET .../status, raise_for_status, status = r.json(),
\* break on a terminal status.
RunTaskPoll ==
    /\ run.pc = "poll"
    /\ \E reply \in StatusReplies :
          IF Raised(reply) # "none"
          THEN run' = [Polled EXCEPT !.pc = "raised", !.result = Str(Raised(reply))]
          ELSE run' = [Polled EXCEPT !.status = reply.body,
                                     !.pc = IF reply.body.v \in TerminalStatuses
                                            THEN "fetch" ELSE "poll"]
    /\ UNCHANGED <<environ, callVars, chatVars, remote>>

\* GET .../task/{task_id}, raise_for_status, data = details.json(), return
RunTaskFetch ==
    /\ run.pc = "fetch"
    /\ \E d \in DetailReplies :
          LET sent == Append(run.log, [req |-> "details", schema |-> Null])
          IN IF Raised(d) # "none" THEN run' = RunFailed(Raised(d), sent)
             ELSE run' = [run EXCEPT !.pc = "returned", !.log = sent,
                                     !.result = [task_id |-> run.task_id, status |-> run.status,
                                                 details |-> d.body]]
    /\ UNCHANGED <<environ, callVars, chatVars, remote>>

\* The service works on the task: a task that is not finished moves on, a terminal
\* status stays.
RemoteAdvance ==
    /\ remote.status \in NonTerminalStatuses
    /\ \E st \in {"running", "paused"} \cup TerminalStatuses :
          /\ st # remote.status
          /\ remote' = [status |-> st]
    /\ UNCHANGED <<environ, callVars, chatVars, run>>

NextRunTaskSteps == RunTaskSubmit \/ RunTaskPoll \/ RunTaskFetch \/ RemoteAdvance
\* The worker thread running run_task keeps running: a pass of the loop or the fetch
\* that can be taken is taken.
SpecRunTaskSteps ==
    /\ InitUnits
    /\ [][NextRunTaskSteps]_vars
    /\ WF_vars(RunTaskPoll)
    /\ WF_vars(RunTaskFetch)

(***************************************************************************)
(* C21                                                                     *)
(***************************************************************************)
Requests(kind) == {i \in DOMAIN run.log : run.log[i].req = kind}
IsTerminal(status) == status.t = "str" /\ status.v \in {"finished", "failed", "stopped"}
Reported == remote.status \in {"finished", "failed", "stopped"}

\* Submit, then poll, then fetch; and what is returned is the terminal status polled.
ProtocolOrder ==
    /\ \A i \in Requests("status") : run.task_id # Null /\ \E j \in Requests("run-task") : j < i
    /\ \A i \in Requests("details") :
          /\ IsTerminal(run.status)
          /\ i > 1 /\ run.log[i - 1].req = "status"
          /\ Requests("status") # {}
    /\ run.pc \in {"fetch", "returned"} => IsTerminal(run.status) /\ run.status = Str(remote.status)
    /\ run.pc = "returned" =>
          /\ Requests("details") # {}
          /\ run.result.task_id = run.task_id
          /\ run.result.status = run.status

\* C21: with a schema, run_task submits, then polls, then fetches: no status poll is
\* sent before a task id was received, the details are fetched only after a poll
\* returned finished, failed or stopped, and that status is the one returned; when the
\* task eventually reports a terminal status and no HTTP call fails, run_task eventually
\* returns; and while the task reports only non-terminal statuses a submitted run_task
\* polls again and again and never returns.
C21_SubmitPollFetch ==
    /\ []ProtocolOrder
    /\ (<>Reported /\ [](run.pc # "raised")) => <>(run.pc = "returned")
    /\ ([]~Reported /\ [](run.pc # "raised") /\ <>(run.pc = "poll"))
          => ([]<><<RunTaskPoll>>_vars /\ [](run.pc \notin {"fetch", "returned"}))

\* run_task returned after the resubmission and polls that saw the task still running.
C21_Witness ==
    /\ run.pc = "returned"
    /\ Cardinality(Requests("run-task")) = 2
    /\ Cardinality(Requests("status")) >= 2
    /\ run.result.status = Str("stopped")

(***************************************************************************)
(* C22                                                                     *)
(***************************************************************************)
\* The provider call did not give a parsed body: requests.get raised, or resp.json() did.
CallFailed(reply) == reply.net = "error" \/ reply.body = NotJson
\* The first k - 1 calls were answered with mappings, and the k-th call failed.
FailsAt(k) ==
    /\ k \in DOMAIN call.replies
    /\ CallFailed(call.replies[k])
    /\ \A j \in 1..(k - 1) : ~CallFailed(call.replies[j]) /\ call.replies[j].body.t = "dict"

\* C22: when the provider call for the k-th deduplicated ticker fails (transport error
\* or unparsable body), get_sentiment answers 502 with none of the items of tickers
\* 1..k-1; the calls issued are exactly those for tickers 1..k, each once and in order
\* (no call after k, no second call for k), with one delay before each of the calls
\* 2..k and none after the failed one.
C22_AllOrNothing ==
    (call.op = "get_sentiment" /\ "ALPHAVANTAGE_API_KEY" \in environ) =>
       \A k \in 1..Len(call.tickers) :
          FailsAt(k) =>
             /\ ret.status = 502
             /\ ret.data = Null
             /\ Len(ret.log) = 2 * k - 1
             /\ \A i \in 1..k :
                   ret.log[2 * i - 1] =
                      [ev |-> "call", seconds |-> 0,
                       ticker |-> StripUpper(call.tickers[KthFirstSeen(call.tickers, i)])]
             /\ \A i \in 1..(k - 1) : ret.log[2 * i].ev = "sleep"
             /\ ret.log[Len(ret.log)].ev = "call"

\* The first ticker was aggregated from two articles, then the call for the second failed.
C22_Witness ==
    /\ call.op = "get_sentiment"
    /\ call.tickers = <<"aapl", "MSFT">>
    /\ FailsAt(2)
    /\ "feed" \in DOMAIN call.replies[1].body.v
    /\ Len(call.replies[1].body.v["feed"].v) = 2
    /\ call.replies[2] = Response(200, NotJson)
    /\ ret.status = 502
    /\ ret.data = Null
    /\ Len(ret.log) = 3

====
